---- MODULE Spec2Model ----
(***************************************************************************)
(* Request/response correlation and completion-detection engine of the     *)
(* Claude Desktop bridge: WebSocketExtractor (fingerprint table, ordered   *)
(* extraction chain, streaming monitor), MessageService and BridgeCore,    *)
(* and the components around it: the probe transport, the conversation     *)
(* page and its readers, the API server's initialization, PluginManager,   *)
(* StateMonitorManager and AuthService.                                    *)
(*                                                                         *)
(* Time is counted in units of the monitor's checkInterval (1000 ms).      *)
(* Logging, statistics counters and event emission are not modelled.       *)
(***************************************************************************)
EXTENDS Integers, Sequences, FiniteSets, TLC

(***************************************************************************)
(* Bounds of the model.                                                    *)
(***************************************************************************)
MaxTime == 3          \* the clock runs from 1 to MaxTime
MaxTimeout == 2       \* callers pass timeouts of 1..MaxTimeout intervals
MaxRuns == 2          \* monitorForResponse invocations per behaviour
LongTime == 4         \* the clock of the behaviours with one long invocation
LongTimeout == 3      \* their timeouts
SoloRuns == 1         \* invocations where the callers do not compete
MaxContexts == 1      \* context ids ContextService hands out
MaxClock == 11        \* the clock values generateAnchor reads: 0..MaxClock
MaxGenerated == 2     \* generateAnchor calls per behaviour
RegistryTime == 3     \* the clock of the registries runs from 1 to RegistryTime
MaxAge == 1           \* maxAgeHours and contextTTL, in clock units
ConfigMaxContexts == 2    \* config.maxContexts of the model's ContextService
MaxUuids == 3         \* contexts created per behaviour
PairedUuids == 2      \* contexts created when both registries are in play
ConfigMaxConcurrent == 1  \* config.maxConcurrentMessages of the model's bridge
CapTime == 2          \* the clock of the behaviours with two anchors in flight
CapTimeout == 1       \* their timeouts
StartTime == 5        \* the clock of the behaviours that wait for the start
StartTimeout == 4     \* their timeout
MaxMessages == 4      \* the messages on the conversation page
MaxRequests == 3      \* the HTTP requests that reach the API server
MaxRegistrations == 3 \* the registerPlugin calls of a behaviour
ConfigMaxPlugins == 1 \* config.maxPlugins of the model's PluginManager
MaxInFlight == 2      \* ticks of one state monitor that await their probe
MaxValidations == 4   \* the validateSession calls of a behaviour

(***************************************************************************)
(* Program constants.                                                      *)
(***************************************************************************)
MinContentLength == 10    \* extractContent: content.length > 10
TickRetries == 1          \* monitor tick: extractContent(.., {retries: 1})
FinalRetries == 2         \* final pass: extractContent(.., {retries: 2})
NumQueries == 2           \* generateExtractionQueries(anchor): two queries
StartFallback == 2        \* detectResponseStart: timeSinceInjection > 2000
MaxRetries == 3           \* MessageService config.maxRetries

(***************************************************************************)
(* Content: strings as sequences of UTF-16 code units.                     *)
(***************************************************************************)
Empty == << >>
\* "Hi there!!" : exactly 10 characters, at the noise threshold
Short == <<72, 105, 32, 116, 104, 101, 114, 101, 33, 33>>
\* "Hi there, A"
C1 == <<72, 105, 32, 116, 104, 101, 114, 101, 44, 32, 65>>
\* "Hi there, AB"
C2 == <<72, 105, 32, 116, 104, 101, 114, 101, 44, 32, 65, 66>>
\* C1 behind two NUL characters: 13 characters with the fingerprint of C1
C3 == <<0, 0>> \o C1

PageContents == {Empty, Short, C1, C2, C3}

(***************************************************************************)
(* hashContent: hash = ((hash << 5) - hash) + char; hash = hash & hash,    *)
(* on 32-bit two's complement integers; the result is hash.toString().     *)
(* The 32-bit value is kept as two 16-bit halves so that no intermediate   *)
(* value leaves the range of the model checker's integers.                 *)
(***************************************************************************)
RECURSIVE hashHalves(_, _, _, _)
hashHalves(content, i, hi, lo) ==
    IF i > Len(content) THEN <<hi, lo>>
    ELSE LET l == 31 * lo + content[i]
             h == 31 * hi + (l \div 65536)
         IN  hashHalves(content, i + 1, h % 65536, l % 65536)

ToInt32(halves) ==
    IF halves[1] >= 32768 THEN (halves[1] - 65536) * 65536 + halves[2]
    ELSE halves[1] * 65536 + halves[2]

\* the decimal string of the hash is modelled as the one-element tuple of
\* the number; the empty string '' is the empty tuple
hashContent(content) == <<ToInt32(hashHalves(content, 1, 0, 0))>>

EmptyString == << >>

(***************************************************************************)
(* The probe transport.  executeJavaScript opens a socket, sends one       *)
(* Runtime.evaluate command with id 1 and settles on what the socket does. *)
(* NoValue stands for a response without result.result.value.              *)
(***************************************************************************)
NoValue == [none |-> TRUE]

Transports == {"reply", "garbage", "timeout", "error", "wrongid", "closed"}

\* "reply": a message with id 1 arrives        -> resolve(response)
\* "garbage": a message that does not parse    -> reject
\* "timeout": nothing arrives, the timer fires -> reject
\* "error": the socket reports an error        -> reject
\* "wrongid": a message with another id clears the timer, nothing follows
\* "closed": the close handler clears the timer, nothing settles the promise
executeJavaScript(transport, value) ==
    CASE transport = "reply" -> [kind |-> "resolve", value |-> value]
      [] transport \in {"garbage", "timeout", "error"} -> [kind |-> "reject"]
      [] transport \in {"wrongid", "closed"} -> [kind |-> "pending"]

\* getPages / findClaudePage: the debug endpoint answers with a page list
\* ("ok"), does not answer (getPages returns null: "unreachable"), or
\* answers with an empty list ("nopage")
Pages == {"ok", "unreachable", "nopage"}

(***************************************************************************)
(* extractContent(anchorHash, {timeout, retries}).  probes[k] is the       *)
(* outcome of the k-th executeJavaScript call the loop would make; the     *)
(* result names how many calls were made.                                  *)
(***************************************************************************)
ExtractValues == {NoValue} \cup {[content |-> c] : c \in PageContents}

ProbeOutcomes ==
    {executeJavaScript(t, v) : t \in Transports, v \in ExtractValues}

ExtractFailure ==
    [success |-> FALSE, content |-> Empty, complete |-> FALSE,
     message |-> "All extraction queries failed"]

RECURSIVE extractLoop(_, _, _, _)
extractLoop(probes, retries, k, minLen) ==
    IF k >= NumQueries * retries
    THEN [kind |-> "return", result |-> ExtractFailure, probes |-> k]
    ELSE LET o == probes[k + 1]
         IN  CASE o.kind = "pending" -> [kind |-> "pending", probes |-> k + 1]
               [] o.kind = "reject" -> extractLoop(probes, retries, k + 1, minLen)
               [] o.kind = "resolve" ->
                    IF /\ o.value # NoValue
                       /\ o.value.content # Empty
                       /\ Len(o.value.content) > minLen
                    THEN [kind |-> "return",
                          result |-> [success |-> TRUE,
                                      content |-> o.value.content,
                                      complete |-> TRUE,
                                      queryIndex |-> k \div retries,
                                      attempt |-> (k % retries) + 1],
                          probes |-> k + 1]
                    ELSE extractLoop(probes, retries, k + 1, minLen)

\* a mutant: content of any length is accepted
extractContentAnyLength(pages, probes, retries) ==
    CASE pages = "unreachable" ->
            [kind |-> "throw", probes |-> 0,
             message |-> "Could not connect to Chrome Debug Protocol"]
      [] pages = "nopage" ->
            [kind |-> "throw", probes |-> 0,
             message |-> "Could not find Claude page"]
      [] pages = "ok" -> extractLoop(probes, retries, 0, 0)

extractContent(pages, probes, retries) ==
    CASE pages = "unreachable" ->
            [kind |-> "throw", probes |-> 0,
             message |-> "Could not connect to Chrome Debug Protocol"]
      [] pages = "nopage" ->
            [kind |-> "throw", probes |-> 0,
             message |-> "Could not find Claude page"]
      [] pages = "ok" -> extractLoop(probes, retries, 0, MinContentLength)

ExtractInputs(retries) ==
    Pages \X [1..(NumQueries * retries) -> ProbeOutcomes]

\* what the monitor reads of an extractContent call: how it ended and, when
\* it returned, the success flag and the content
Seen(x) ==
    IF x.kind = "return"
    THEN [kind |-> "return", success |-> x.result.success,
          content |-> x.result.content]
    ELSE [kind |-> x.kind]

\* what the extractContent call of a monitor tick, and of the final pass,
\* can come back with, over every behaviour of the surface
TickExtractions ==
    {Seen(extractContent(i[1], i[2], TickRetries)) :
        i \in ExtractInputs(TickRetries)}

FinalExtractions ==
    {Seen(extractContent(i[1], i[2], FinalRetries)) :
        i \in ExtractInputs(FinalRetries)}

(***************************************************************************)
(* detectResponseCompletion.  The in-page check reads the stop button and  *)
(* the send button; dom is what the page shows.                            *)
(***************************************************************************)
DomStates ==
    [stopVisible : BOOLEAN, sendFound : BOOLEAN, sendDisabled : BOOLEAN]

completionCheck(dom) ==
    [complete |-> ~dom.stopVisible,
     stopButtonVisible |-> dom.stopVisible,
     sendButtonFound |-> dom.sendFound,
     sendButtonDisabled |-> dom.sendFound /\ dom.sendDisabled]

CompletionValues == {NoValue} \cup {completionCheck(d) : d \in DomStates}

\* a mutant: a probe that cannot be resolved counts as "not busy"
detectResponseCompletionEager(pages, outcome) ==
    IF pages # "ok" THEN [kind |-> "return", complete |-> TRUE]
    ELSE CASE outcome.kind = "pending" -> [kind |-> "pending"]
           [] outcome.kind = "reject" -> [kind |-> "return", complete |-> TRUE]
           [] outcome.kind = "resolve" ->
                [kind |-> "return",
                 complete |-> IF outcome.value = NoValue THEN TRUE
                              ELSE outcome.value.complete]

detectResponseCompletion(pages, outcome) ==
    IF pages # "ok" THEN [kind |-> "return", complete |-> FALSE]
    ELSE CASE outcome.kind = "pending" -> [kind |-> "pending"]
           [] outcome.kind = "reject" -> [kind |-> "return", complete |-> FALSE]
           [] outcome.kind = "resolve" ->
                [kind |-> "return",
                 complete |-> IF outcome.value = NoValue THEN FALSE
                              ELSE outcome.value.complete = TRUE]

\* what one completion probe read of the busy indicator: whether it could be
\* read at all, and whether it showed the assistant still generating
CompletionSignal(pages, outcome) ==
    IF pages = "ok" /\ outcome.kind = "resolve" /\ outcome.value # NoValue
    THEN [resolved |-> TRUE, stillBusy |-> outcome.value.stopButtonVisible]
    ELSE [resolved |-> FALSE, stillBusy |-> FALSE]

NoSignal == [resolved |-> FALSE, stillBusy |-> FALSE]

\* what one completion probe can come back with, and the signal it read
CompletionProbes ==
    {[d |-> detectResponseCompletion(p, executeJavaScript(t, v)),
      signal |-> CompletionSignal(p, executeJavaScript(t, v))] :
        p \in Pages, t \in Transports, v \in CompletionValues}

(***************************************************************************)
(* detectResponseStart: its own socket with a 5 s timer that always        *)
(* resolves.  The in-page check answers "responding" on a busy indicator   *)
(* or once more than 2000 ms have passed since the injection time, which   *)
(* is the tracked timestamp or, for an untracked anchor, the current time. *)
(***************************************************************************)
StartTransports == {"reply", "timeout", "error"}

detectResponseStart(pages, transport, indicator, injectionTime, clock) ==
    /\ pages = "ok"
    /\ transport = "reply"
    /\ (indicator \/ clock - injectionTime > StartFallback)

(***************************************************************************)
(* State.                                                                  *)
(***************************************************************************)
VARIABLES
    now,                  \* Date.now(), in check intervals
    msInitialized,        \* MessageService.initialized
    activeExtractions,    \* MessageService.activeExtractions (its keys)
    injectionTimestamps,  \* per extractor: anchor -> injection timestamp
    lastContentHashes,    \* per extractor: anchor -> fingerprint
    runs,                 \* the monitorForResponse invocations, in call order
    bcInitialized,        \* BridgeCore.initialized
    running,              \* BridgeCore.running
    anchors,              \* AnchorService.anchors: anchor -> tracking data
    contexts,             \* ContextService.contexts: id -> context
    lastCall,             \* how the latest BridgeCore plugin-API call ended
    extraction,           \* the latest extractContent call and how it ended
    generated,            \* the generateAnchor calls: clock read, id returned
    registryCall,         \* the latest AnchorService/ContextService call
    uuids,                \* how many ids crypto.randomUUID() has handed out
    probeCalls,           \* per implementation: one executeJavaScript call
    surface,              \* the conversation page: its messages in order
    attributed,           \* the latest extraction: anchor and messages
    apiServer,            \* ClaudeDesktopAPIServer: flag, interface, requests
    pluginState,          \* PluginManager and BridgeCore: plugins, calls
    monitorState,         \* StateMonitorManager and the desktop state it writes
    authState             \* AuthService: sessionValid, events emitted, calls

vars == <<now, msInitialized, activeExtractions, injectionTimestamps,
          lastContentHashes, runs, bcInitialized, running, anchors, contexts,
          lastCall, extraction, generated, registryCall, uuids,
          probeCalls,
          surface,
          attributed,
          apiServer,
          pluginState,
          monitorState,
          authState>>

\* what the engine (extractor, MessageService, BridgeCore) reads and writes
engineVars == <<now, msInitialized, activeExtractions, injectionTimestamps,
                lastContentHashes, runs, bcInitialized, running, anchors,
                contexts, lastCall>>

\* the components beside the engine, each with a state of its own
componentVars == <<probeCalls, surface, attributed, apiServer, pluginState,
                   monitorState, authState>>

\* what only the direct callers of extractContent, AnchorService and
\* ContextService write
directVars == <<extraction, generated, registryCall, uuids, componentVars>>

bridgeVars == <<bcInitialized, running, anchors, contexts, lastCall>>

\* MessageService owns one WebSocketExtractor ("service"), the desktop
\* interface behind the HTTP API server another ("desktop")
Extractors == {"service", "desktop"}

\* anchors: msg_<timestamp>_<suffix>
AnchorPool == {<<"msg", 1000, "abc123">>, <<"msg", 1000, "xyz789">>}

\* the anchor that competing callers pass
Contended == {<<"msg", 1000, "abc123">>}

Has(map, key) == key \in DOMAIN map

Put(map, key, value) ==
    [k \in DOMAIN map \cup {key} |-> IF k = key THEN value ELSE map[k]]

EmptyMap == [k \in {} |-> 0]

NoCall ==
    [op |-> "none", outcome |-> "none", success |-> FALSE, message |-> "",
     failure |-> "none"]

NoExtraction == [pages |-> "none"]

NoRegistryCall == [op |-> "none"]

\* the three implementations of executeJavaScript: WebSocketExtractor,
\* simple-extraction.js and DOMObserver
ProbeImpls == {"extractor", "simple", "observer"}

NoAttribution == [by |-> "none"]

\* the validateSession calls of a behaviour
Validations == 1..MaxValidations

\* sessionValid: AuthService.sessionValid
\* events: the session events AuthService has emitted, in order
\* calls: where each validateSession call stands
AuthConstructed ==
    [sessionValid |-> FALSE, events |-> << >>,
     calls |-> [c \in Validations |-> [pc |-> "idle"]]]

\* the monitors of StateMonitorManager, by the category they write
MonitorTypes == {"submitButton", "inputField", "processing", "chatNavigation"}

\* enabled: StateMonitorManager.enabled
\* intervals: the keys of StateMonitorManager.monitors, each with a
\*     setInterval that is scheduled
\* inFlight: per monitor, the ticks that await their DOMObserver probe
\* desktop: per category, what DesktopState holds
MonitorsConstructed ==
    [enabled |-> FALSE, intervals |-> {},
     inFlight |-> [t \in MonitorTypes |-> 0],
     desktop |-> [t \in MonitorTypes |-> "initial"]]

\* the plugins that can be registered, by plugin.name
PluginNames == {"mattermost", "web"}

\* the registerPlugin calls of a behaviour
Registrations == 1..MaxRegistrations

\* initialized: PluginManager.initialized
\* manager: the keys of PluginManager.plugins
\* core: the keys of BridgeCore.plugins
\* calls: where each registerPlugin call stands
PluginsConstructed ==
    [initialized |-> FALSE, manager |-> {}, core |-> {},
     calls |-> [c \in Registrations |-> [pc |-> "idle"]]]

\* the HTTP requests that reach the API server
Requests == 1..MaxRequests

\* isInitialized: ClaudeDesktopAPIServer.isInitialized
\* initialized: ClaudeDesktopInterface.initialized of this.claude
\* requests: where the handler of each request stands
ApiServerConstructed ==
    [isInitialized |-> FALSE, initialized |-> FALSE,
     requests |-> [q \in Requests |-> [pc |-> "idle"]]]

NoProbe == [socket |-> "none", timer |-> "none", promise |-> "none"]

\* everything but the clock
Constructed ==
    /\ msInitialized = FALSE
    /\ activeExtractions = {}
    /\ injectionTimestamps = [e \in Extractors |-> EmptyMap]
    /\ lastContentHashes = [e \in Extractors |-> EmptyMap]
    /\ runs = << >>
    /\ bcInitialized = FALSE
    /\ running = FALSE
    /\ anchors = EmptyMap
    /\ contexts = EmptyMap
    /\ lastCall = NoCall
    /\ extraction = NoExtraction
    /\ generated = << >>
    /\ registryCall = NoRegistryCall
    /\ uuids = 0
    /\ probeCalls = [i \in ProbeImpls |-> NoProbe]
    /\ surface = << >>
    /\ attributed = NoAttribution
    /\ apiServer = ApiServerConstructed
    /\ pluginState = PluginsConstructed
    /\ monitorState = MonitorsConstructed
    /\ authState = AuthConstructed

Init ==
    /\ now = 1
    /\ Constructed

(***************************************************************************)
(* The fingerprint table of one extractor.                                 *)
(***************************************************************************)
\* a mutant: the injection timestamp is recorded, the fingerprint is not
\* reset
trackInjectionTimestampOnly(ext, anchorHash) ==
    /\ injectionTimestamps' =
         [injectionTimestamps EXCEPT ![ext] = Put(@, anchorHash, now)]
    /\ UNCHANGED lastContentHashes

trackInjection(ext, anchorHash) ==
    /\ injectionTimestamps' =
         [injectionTimestamps EXCEPT ![ext] = Put(@, anchorHash, now)]
    /\ lastContentHashes' =
         [lastContentHashes EXCEPT ![ext] = Put(@, anchorHash, EmptyString)]

\* a mutant: an anchor without injection timestamp is treated like one
\* whose fingerprint is still empty
isContentNewUntracked(ext, anchorHash, content) ==
    LET contentHash == hashContent(content)
        lastHash == IF Has(lastContentHashes[ext], anchorHash)
                    THEN lastContentHashes[ext][anchorHash]
                    ELSE EmptyString
    IN  IF contentHash = lastHash
        THEN [isNew |-> FALSE, hashes |-> lastContentHashes[ext]]
        ELSE [isNew |-> TRUE,
              hashes |-> Put(lastContentHashes[ext], anchorHash, contentHash)]

\* isNew is the value returned, hashes the extractor's table afterwards
isContentNew(ext, anchorHash, content) ==
    IF ~Has(injectionTimestamps[ext], anchorHash)
    THEN [isNew |-> FALSE, hashes |-> lastContentHashes[ext]]
    ELSE LET contentHash == hashContent(content)
             lastHash == lastContentHashes[ext][anchorHash]
         IN  IF contentHash = lastHash
             THEN [isNew |-> FALSE, hashes |-> lastContentHashes[ext]]
             ELSE [isNew |-> TRUE,
                   hashes |-> Put(lastContentHashes[ext], anchorHash,
                                  contentHash)]

\* a mutant: any content with a new fingerprint is streamed
shouldStreamOnChange(isNew, content, lastContent) == isNew

\* the condition of the stream update in a tick:
\* isContentNew(anchorHash, content) && content.length > lastContent.length
shouldStream(isNew, content, lastContent) ==
    isNew /\ Len(content) > Len(lastContent)

(***************************************************************************)
(* One monitorForResponse invocation.                                      *)
(*   pc: "timer"    the next streamMonitor tick is scheduled for wakeAt    *)
(*       "resolved" the promise has resolved with result                   *)
(*       "pending"  the tick awaits a probe that never settles             *)
(*   sink: the streamCallback: "none" (null), "guarded" (MessageService's  *)
(*       wrapper around its caller's callback), "bridge" (that wrapper     *)
(*       around BridgeCore's wrapper around the plugin's callback),        *)
(*       "endpoint" (the API server's own callback)                        *)
(*   delivered: the updates the streamCallback was called with             *)
(*   tickContent: the content the latest extraction of a tick returned     *)
(*   signal: what the completion probe of the latest tick read             *)
(*   startAnswered: the latest tick's detectResponseStart got the answer   *)
(*       of the in-page check from a reachable surface, and the answer was *)
(*       "not responding"                                                  *)
(*   finalContent: the content the latest final extraction returned        *)
(*   surfaceLost: the latest tick's extractContent threw because the       *)
(*       debug endpoint did not answer or listed no Claude page            *)
(*                                                                         *)
(* A tick of streamMonitor is one action.  Between its awaits only its     *)
(* call of isContentNew touches state shared with other invocations, so    *)
(* every interleaving of two ticks equals one of the two orders.           *)
(***************************************************************************)
NoResult == [none |-> TRUE]

NewRun(ext, anchorHash, sink, timeout) ==
    [ext |-> ext, anchor |-> anchorHash, sink |-> sink, timeout |-> timeout,
     startTime |-> now, wakeAt |-> now, pc |-> "timer",
     responseStarted |-> FALSE, lastContent |-> Empty, delivered |-> << >>,
     tickContent |-> Empty, signal |-> NoSignal, surfaceLost |-> FALSE,
     startAnswered |-> FALSE, finalContent |-> Empty,
     result |-> NoResult]

RunIds == 1..Len(runs)

Active(r) == runs[r].pc \in {"timer", "pending"}

\* whether streamCallback(update) throws into the monitor: the API server's
\* callback assigns the undeclared variable `packet` in strict-mode code;
\* the wrappers of MessageService and BridgeCore catch what their callback
\* throws
SinkThrows(sink) == sink = "endpoint"

\* streamCallback(update), when a callback was given
Deliver(run, content, complete) ==
    IF run.sink = "none" THEN run
    ELSE [run EXCEPT !.delivered =
            Append(@, [content |-> content, complete |-> complete])]

\* what BridgeCore.streamResponse hands back to the plugin
StreamCall(result) ==
    [op |-> "streamResponse", outcome |-> "returned",
     success |-> result.success,
     message |-> IF result.success THEN "" ELSE result.message,
     failure |-> IF result.success THEN "none" ELSE "timeout"]

\* setTimeout(streamMonitor, checkInterval) at the end of a tick
Reschedule(r, run) ==
    /\ runs' = [runs EXCEPT ![r] =
          [run EXCEPT !.pc = "timer", !.wakeAt = now + 1]]
    /\ UNCHANGED <<activeExtractions, lastCall>>

\* a probe of the tick never settles
Stuck(r, run) ==
    /\ runs' = [runs EXCEPT ![r] = [run EXCEPT !.pc = "pending"]]
    /\ UNCHANGED <<activeExtractions, lastCall>>

\* a resolution after which the monitor goes on polling
ResolveAndReschedule(r, run, result) ==
    /\ runs' = [runs EXCEPT ![r] =
          [run EXCEPT !.pc = "timer", !.wakeAt = now + 1, !.result = result]]
    /\ activeExtractions' =
         IF run.sink \in {"guarded", "bridge"}
         THEN activeExtractions \ {run.anchor}
         ELSE activeExtractions
    /\ lastCall' = IF run.sink = "bridge" THEN StreamCall(result) ELSE lastCall

\* resolve(result); MessageService.streamResponse resumes, deletes its
\* activeExtractions entry and returns the result, BridgeCore.streamResponse
\* returns it to the plugin
Resolve(r, run, result) ==
    /\ runs' = [runs EXCEPT ![r] =
          [run EXCEPT !.pc = "resolved", !.result = result]]
    /\ activeExtractions' =
         IF run.sink \in {"guarded", "bridge"}
         THEN activeExtractions \ {run.anchor}
         ELSE activeExtractions
    /\ lastCall' = IF run.sink = "bridge" THEN StreamCall(result) ELSE lastCall

(***************************************************************************)
(* The steps of one streamMonitor tick, last first.                        *)
(***************************************************************************)
\* the final pass that keeps what was streamed, whatever the final
\* extraction returned
keepLastContent(finalResult, lastContent) == lastContent

\* if (finalResult.success && finalResult.content.length > lastContent.length)
\*     lastContent = finalResult.content;
finalLastContent(finalResult, lastContent) ==
    IF finalResult.success /\ Len(finalResult.content) > Len(lastContent)
    THEN finalResult.content ELSE lastContent

\* the final extraction pass, the terminal update and the resolution
FinalPass(r, run) ==
    \E x \in FinalExtractions :
        CASE x.kind = "pending" -> Stuck(r, run)
          [] x.kind = "throw" ->
               Reschedule(r, [run EXCEPT !.surfaceLost = TRUE])
          [] x.kind = "return" ->
               LET lastContent == finalLastContent(x, run.lastContent)
                   sent == Deliver([run EXCEPT !.lastContent = lastContent,
                                               !.finalContent = x.content],
                                   lastContent, TRUE)
               IN  IF run.sink # "none" /\ SinkThrows(run.sink)
                   THEN Reschedule(r, sent)
                   ELSE Resolve(r, sent, [success |-> TRUE,
                                          content |-> lastContent,
                                          complete |-> TRUE])

\* responseComplete = await detectResponseCompletion(anchorHash)
CompletionCheck(r, run) ==
    \E c \in CompletionProbes :
        IF c.d.kind = "pending" THEN Stuck(r, run)
        ELSE IF c.d.complete
             THEN FinalPass(r, [run EXCEPT !.signal = c.signal])
             ELSE Reschedule(r, [run EXCEPT !.signal = c.signal])

\* result = await extractContent(anchorHash, {retries: 1}) and the
\* stream update for new content
ExtractAndStream(r, run) ==
    \E x \in TickExtractions :
        CASE x.kind = "pending" ->
               /\ Stuck(r, run)
               /\ UNCHANGED lastContentHashes
          [] x.kind = "throw" ->
               /\ Reschedule(r, [run EXCEPT !.tickContent = Empty,
                                            !.surfaceLost = TRUE])
               /\ UNCHANGED lastContentHashes
          [] x.kind = "return" ->
               LET seen == [run EXCEPT !.tickContent = x.content]
               IN  IF x.success /\ x.content # Empty
                   THEN LET n == isContentNew(run.ext, run.anchor, x.content)
                            sent == Deliver(
                                [seen EXCEPT !.lastContent = x.content],
                                x.content, FALSE)
                        IN  /\ lastContentHashes' =
                                 [lastContentHashes EXCEPT ![run.ext] = n.hashes]
                            /\ IF shouldStream(n.isNew, x.content,
                                               run.lastContent)
                               THEN IF run.sink # "none" /\ SinkThrows(run.sink)
                                    THEN Reschedule(r, sent)
                                    ELSE CompletionCheck(r, sent)
                               ELSE CompletionCheck(r, seen)
                   ELSE /\ CompletionCheck(r, seen)
                        /\ UNCHANGED lastContentHashes

\* what detectResponseStart can answer for this anchor now
StartAnswers(run) ==
    LET tracked == injectionTimestamps[run.ext]
        injectionTime == IF Has(tracked, run.anchor) THEN tracked[run.anchor]
                         ELSE now
    IN  {[responding |-> detectResponseStart(p, t, i, injectionTime, now),
          answered |-> (p = "ok" /\ t = "reply")] :
            p \in Pages, t \in StartTransports, i \in BOOLEAN}

\* one tick of the streamMonitor closure of invocation r
streamMonitor(r) ==
    LET run == runs[r]
        tick == [run EXCEPT !.signal = NoSignal, !.surfaceLost = FALSE,
                            !.startAnswered = FALSE]
    IN  /\ run.pc = "timer"
        /\ now >= run.wakeAt
        /\ IF now - run.startTime >= run.timeout
           THEN /\ Resolve(r, run,
                       [success |-> FALSE, content |-> run.lastContent,
                        complete |-> FALSE,
                        message |-> "Response monitoring timeout"])
                /\ UNCHANGED lastContentHashes
           ELSE IF run.responseStarted
                THEN ExtractAndStream(r, tick)
                ELSE \E isResponding \in StartAnswers(run) :
                        IF isResponding.responding
                        THEN ExtractAndStream(r,
                                 [tick EXCEPT !.responseStarted = TRUE])
                        ELSE /\ Reschedule(r,
                                    [tick EXCEPT !.startAnswered =
                                                    isResponding.answered])
                             /\ UNCHANGED lastContentHashes
        /\ UNCHANGED <<now, msInitialized, injectionTimestamps, bcInitialized,
                       running, anchors, contexts>>

\* the clock moves on once every timer that is due has fired
Advance(maxTime) ==
    /\ now < maxTime
    /\ \A r \in RunIds : runs[r].pc = "timer" => runs[r].wakeAt > now
    /\ now' = now + 1
    /\ UNCHANGED <<msInitialized, activeExtractions, injectionTimestamps,
                   lastContentHashes, runs, bridgeVars>>

(***************************************************************************)
(* MessageService.                                                         *)
(***************************************************************************)
\* MessageService.initialize: _testConnection decides
MessageService_initialize(pages) ==
    /\ ~msInitialized
    /\ msInitialized' = (pages = "ok")
    /\ UNCHANGED <<now, activeExtractions, injectionTimestamps,
                   lastContentHashes, runs, bridgeVars>>

\* DOMInjector.injectMessage: throws when no page is found or the probe
\* rejects, returns success:true otherwise
InjectOutcomes == {"ok", "unreachable", "nopage", "reject"}

\* MessageService.injectMessage(content, anchor)
MessageService_injectMessage(anchorHash, outcome) ==
    /\ msInitialized
    /\ IF outcome = "ok"
       THEN trackInjection("service", anchorHash)
       ELSE UNCHANGED <<injectionTimestamps, lastContentHashes>>
    /\ UNCHANGED <<now, msInitialized, activeExtractions, runs, bridgeVars>>

\* MessageService.streamResponse(anchor, callback, {timeout}) up to its
\* await of monitorForResponse, whose first tick is due at once
MessageService_streamResponse(anchorHash, timeout, maxRuns, maxTime) ==
    /\ msInitialized
    /\ Len(runs) < maxRuns
    /\ now + timeout <= maxTime
    /\ activeExtractions' = activeExtractions \cup {anchorHash}
    /\ runs' = Append(runs, NewRun("service", anchorHash, "guarded", timeout))
    /\ UNCHANGED <<now, msInitialized, injectionTimestamps, lastContentHashes,
                   bridgeVars>>

\* MessageService.stop(): WebSocketExtractor.cleanup() closes and clears
\* activeStreams, a map nothing ever adds to, and activeExtractions is
\* cleared; no timer of a monitor is cleared and no promise is settled
MessageService_stop ==
    /\ activeExtractions' = {}
    /\ UNCHANGED <<now, msInitialized, injectionTimestamps,
                   lastContentHashes, runs, bridgeVars>>

(***************************************************************************)
(* The HTTP API server and the desktop interface behind it, once           *)
(* ensureInitialized has succeeded.                                        *)
(***************************************************************************)
\* POST /claude/inject -> ControlMethods.injectMessage(message): the
\* injector generates the anchor; the desktop extractor tracks it
ControlMethods_injectMessage(anchorHash, outcome) ==
    /\ IF outcome = "ok"
       THEN trackInjection("desktop", anchorHash)
       ELSE UNCHANGED <<injectionTimestamps, lastContentHashes>>
    /\ UNCHANGED <<now, msInitialized, activeExtractions, runs, bridgeVars>>

\* POST /claude/monitor {anchor, timeout, streaming}
Endpoint_monitor(anchorHash, timeout, streaming, maxRuns, maxTime) ==
    /\ Len(runs) < maxRuns
    /\ now + timeout <= maxTime
    /\ runs' = Append(runs, NewRun("desktop", anchorHash,
                                   IF streaming THEN "endpoint" ELSE "none",
                                   timeout))
    /\ UNCHANGED <<now, msInitialized, activeExtractions, injectionTimestamps,
                   lastContentHashes, bridgeVars>>

(***************************************************************************)
(* BridgeCore: the plugin API.  lastCall records how the latest call       *)
(* ended: outcome "returned" or "threw", the success flag and message of   *)
(* what was returned or thrown, and which failure ended it.                *)
(***************************************************************************)
Returned(op) ==
    [op |-> op, outcome |-> "returned", success |-> TRUE, message |-> "",
     failure |-> "none"]

Threw(op, failure, message) ==
    [op |-> op, outcome |-> "threw", success |-> FALSE, message |-> message,
     failure |-> failure]

\* _validateRunning() fails: thrown before the try block
NotRunning(op) ==
    /\ ~running
    /\ lastCall' = Threw(op, "not-running", "BridgeCore is not running")
    /\ UNCHANGED <<now, msInitialized, activeExtractions, injectionTimestamps,
                   lastContentHashes, runs, bcInitialized, running, anchors,
                   contexts>>

\* BridgeCore.initialize: MessageService.initialize reports a failed
\* connection test by returning false, which initialize does not read
BridgeCore_initialize(pages) ==
    /\ ~bcInitialized
    /\ msInitialized' = (msInitialized \/ pages = "ok")
    /\ bcInitialized' = TRUE
    /\ UNCHANGED <<now, activeExtractions, injectionTimestamps,
                   lastContentHashes, runs, running, anchors, contexts,
                   lastCall>>

\* BridgeCore.start: MessageService.start throws unless it is initialized
BridgeCore_start ==
    /\ bcInitialized
    /\ ~running
    /\ msInitialized
    /\ running' = TRUE
    /\ UNCHANGED <<now, msInitialized, activeExtractions, injectionTimestamps,
                   lastContentHashes, runs, bcInitialized, anchors, contexts,
                   lastCall>>

\* the message DOMInjector.injectMessage throws with
InjectionError(outcome) ==
    CASE outcome = "unreachable" -> "Could not connect to Chrome Debug Protocol"
      [] outcome = "nopage" -> "Could not find Claude page"
      [] OTHER -> "WebSocket timeout"

\* how BridgeCore.injectMessage ends for an outcome of the injection: the
\* catch block logs, emits injection-error and throws the error on
injectMessageOutcome(outcome) ==
    IF outcome = "ok" THEN Returned("injectMessage")
    ELSE Threw("injectMessage", "injection", InjectionError(outcome))

\* contextId: 0 stands for none given
ContextIds == 0..MaxContexts

\* BridgeCore.injectMessage(content, {contextId}): anchorHash is the anchor
\* generateAnchor produced
BridgeCore_injectMessage(anchorHash, contextId, outcome) ==
    \/ NotRunning("injectMessage")
    \/ /\ running
       /\ contextId # 0
       /\ ~Has(contexts, contextId)
       \* getContext returned null: context.id throws inside the try block
       /\ lastCall' = Threw("injectMessage", "context",
                            "Cannot read properties of null")
       /\ UNCHANGED <<now, msInitialized, activeExtractions,
                      injectionTimestamps, lastContentHashes, runs,
                      bcInitialized, running, anchors, contexts>>
    \/ /\ running
       /\ contextId = 0 => Cardinality(DOMAIN contexts) < MaxContexts
       /\ contextId # 0 => Has(contexts, contextId)
       /\ LET id == IF contextId = 0 THEN Cardinality(DOMAIN contexts) + 1
                    ELSE contextId
              context == IF contextId = 0
                         THEN [anchor |-> anchorHash, status |-> "created"]
                         ELSE contexts[contextId]
          IN  /\ anchors' = Put(anchors, anchorHash,
                                [status |-> "created", contextId |-> id])
              /\ IF outcome = "ok"
                 THEN /\ trackInjection("service", anchorHash)
                      /\ contexts' = Put(contexts, id,
                             [anchor |-> anchorHash, status |-> "injected"])
                 ELSE /\ contexts' = Put(contexts, id, context)
                      /\ UNCHANGED <<injectionTimestamps, lastContentHashes>>
              /\ lastCall' = injectMessageOutcome(outcome)
       /\ UNCHANGED <<now, msInitialized, activeExtractions, runs,
                      bcInitialized, running>>

\* what a caller of extractContent gets: the value returned or the error
Reported(x) ==
    IF x.kind = "return"
    THEN [kind |-> "return", success |-> x.result.success,
          content |-> x.result.content,
          message |-> IF x.result.success THEN ""
                      ELSE x.result.message]
    ELSE IF x.kind = "throw" THEN [kind |-> "throw", message |-> x.message]
    ELSE [kind |-> "pending"]

\* what MessageService.extractResponse gets from extractContent with
\* retries = config.maxRetries
ServiceExtractions ==
    {Reported(extractContent(i[1], i[2], MaxRetries)) :
        i \in ExtractInputs(MaxRetries)}

\* a mutant: a failed extraction is reported in the returned value
extractResponseAsValue(x) ==
    IF x.kind = "return" /\ x.success THEN Returned("extractResponse")
    ELSE [op |-> "extractResponse", outcome |-> "returned",
          success |-> FALSE, message |-> x.message,
          failure |-> "extraction"]

\* how BridgeCore.extractResponse ends: MessageService.extractResponse
\* throws 'Extraction failed: ...' on success:false and throws on what
\* extractContent throws; BridgeCore's catch block throws the error on
extractResponseOutcome(x) ==
    IF x.kind = "return" /\ x.success THEN Returned("extractResponse")
    ELSE Threw("extractResponse", "extraction", x.message)

\* BridgeCore.extractResponse(anchor)
BridgeCore_extractResponse(anchorHash, x) ==
    \/ NotRunning("extractResponse")
    \/ /\ running
       /\ x.kind # "pending"
       /\ lastCall' = extractResponseOutcome(x)
       /\ anchors' =
            IF x.kind = "return" /\ x.success /\ Has(anchors, anchorHash)
            THEN [anchors EXCEPT ![anchorHash].status = "extracted"]
            ELSE anchors
       /\ UNCHANGED <<now, msInitialized, activeExtractions,
                      injectionTimestamps, lastContentHashes, runs,
                      bcInitialized, running, contexts>>

\* BridgeCore.streamResponse(anchor, callback, {timeout}) up to the await of
\* monitorForResponse inside MessageService.streamResponse
BridgeCore_streamResponse(anchorHash, timeout, maxRuns, maxTime) ==
    \/ NotRunning("streamResponse")
    \/ /\ running
       /\ Len(runs) < maxRuns
       /\ now + timeout <= maxTime
       /\ activeExtractions' = activeExtractions \cup {anchorHash}
       /\ runs' = Append(runs, NewRun("service", anchorHash, "bridge", timeout))
       /\ UNCHANGED <<now, msInitialized, injectionTimestamps,
                      lastContentHashes, bridgeVars>>

(***************************************************************************)
(* Anchor ids: `msg_${timestamp}_${randomId}`, strings as sequences of     *)
(* code units like the contents.                                           *)
(***************************************************************************)
Digits == 48..57

\* "msg_"
MsgPrefix == <<109, 115, 103, 95>>

Underscore == 95

\* the decimal numeral of a non-negative integer, as the template literal
\* writes it
RECURSIVE toString10(_)
toString10(n) ==
    IF n < 10 THEN <<48 + n>>
    ELSE Append(toString10(n \div 10), 48 + (n % 10))

\* parseInt of a string of decimal digits
RECURSIVE parseInt(_)
parseInt(digits) ==
    IF Len(digits) = 0 THEN 0
    ELSE 10 * parseInt(SubSeq(digits, 1, Len(digits) - 1))
         + (digits[Len(digits)] - 48)

\* Math.random().toString(36).substring(2, 8): up to six characters of
\* [0-9a-z]; "", "7", "abc123", "12ab9z"
RandomIds ==
    {<< >>, <<55>>, <<97, 98, 99, 49, 50, 51>>, <<49, 50, 97, 98, 57, 122>>}

generateAnchor(timestamp, randomId) ==
    MsgPrefix \o toString10(timestamp) \o <<Underscore>> \o randomId

\* the end of the longest run of digits that starts at position i
RECURSIVE digitRun(_, _)
digitRun(str, i) ==
    IF i <= Len(str) /\ str[i] \in Digits THEN digitRun(str, i + 1)
    ELSE i - 1

\* anchor.match(/msg_(\d+)_/) tried at position i: the captured digits, or
\* the empty string when the pattern does not match there
matchAt(str, i) ==
    IF /\ i + 3 <= Len(str)
       /\ SubSeq(str, i, i + 3) = MsgPrefix
    THEN LET j == digitRun(str, i + 4)
         IN  IF j >= i + 4 /\ j + 1 <= Len(str) /\ str[j + 1] = Underscore
             THEN SubSeq(str, i + 4, j)
             ELSE << >>
    ELSE << >>

\* extractTimestamp's null; no timestamp is negative
NoTimestamp == -1

\* a mutant: only the first digit of the timestamp is captured
extractTimestampOneDigit(anchor) ==
    LET hits == {i \in 1..Len(anchor) : matchAt(anchor, i) # << >>}
    IN  IF hits = {} THEN NoTimestamp
        ELSE LET first == CHOOSE i \in hits : \A k \in hits : i <= k
             IN  parseInt(SubSeq(matchAt(anchor, first), 1, 1))

\* AnchorService.extractTimestamp: parseInt of the first match, or null
extractTimestamp(anchor) ==
    LET hits == {i \in 1..Len(anchor) : matchAt(anchor, i) # << >>}
    IN  IF hits = {} THEN NoTimestamp
        ELSE LET first == CHOOSE i \in hits : \A k \in hits : i <= k
             IN  parseInt(matchAt(anchor, first))

Generators == {"AnchorService", "DOMInjector"}

\* AnchorService.generateAnchor() and DOMInjector.generateUniqueAnchor():
\* Date.now() and Math.random() are read, nothing is looked up
GenerateAnchor(by, randomId, maxGenerated) ==
    /\ Len(generated) < maxGenerated
    /\ generated' = Append(generated,
                           [by |-> by, timestamp |-> now,
                            anchor |-> generateAnchor(now, randomId)])
    /\ UNCHANGED <<engineVars, extraction, registryCall, uuids, componentVars>>

\* the clock of the id generators, in milliseconds
Tick(maxClock) ==
    /\ now < maxClock
    /\ now' = now + 1
    /\ UNCHANGED <<msInitialized, activeExtractions, injectionTimestamps,
                   lastContentHashes, runs, bcInitialized, running, anchors,
                   contexts, lastCall, directVars>>

(***************************************************************************)
(* AnchorService and ContextService: the registries.  A record is modelled *)
(* by the fields createdAt, status and lastActivity; the fields that only  *)
(* carry data (contextId, injectionResult, source, messageCount, ...) are  *)
(* left out.  The clock unit is the one maxAge is counted in.              *)
(***************************************************************************)
\* null, as a registry call returns it
Null == [null |-> TRUE]

\* { ...base, ...over }
Spread(base, over) ==
    [k \in DOMAIN base \cup DOMAIN over |->
        IF k \in DOMAIN over THEN over[k] ELSE base[k]]

NoFields == [k \in {} |-> 0]

Remove(map, keys) == [k \in DOMAIN map \ keys |-> map[k]]

\* trackAnchor(anchor, metadata): the registry afterwards
trackAnchor(map, anchor, metadata, clock) ==
    Put(map, anchor,
        Spread([createdAt |-> clock, status |-> "created",
                lastActivity |-> clock], metadata))

\* a mutant: an update of an id that is not tracked creates its record
updateUpsert(map, id, updates, clock) ==
    LET updated == Spread(Spread(IF Has(map, id) THEN map[id] ELSE NoFields,
                                 updates),
                          [lastActivity |-> clock])
    IN  [result |-> updated, map |-> Put(map, id, updated)]

\* updateAnchor(anchor, updates) and updateContext(contextId, updates): the
\* value returned and the registry afterwards
update(map, id, updates, clock) ==
    IF ~Has(map, id) THEN [result |-> Null, map |-> map]
    ELSE LET updated == Spread(Spread(map[id], updates),
                               [lastActivity |-> clock])
         IN  [result |-> updated, map |-> Put(map, id, updated)]

\* a mutant: a record at the cutoff is deleted as well
staleAtCutoff(map, clock) ==
    {k \in DOMAIN map : map[k].lastActivity <= clock - MaxAge}

\* cleanupOldAnchors() and cleanupOldContexts(): the records deleted
stale(map, clock) ==
    {k \in DOMAIN map : map[k].lastActivity < clock - MaxAge}

\* createContext(metadata): the record stored under the new id
createContext(metadata, clock) ==
    Spread([createdAt |-> clock, lastActivity |-> clock,
            status |-> "created"], metadata)

AnchorService_trackAnchor(anchor, metadata) ==
    /\ anchors' = trackAnchor(anchors, anchor, metadata, now)
    /\ registryCall' = [op |-> "trackAnchor", id |-> anchor,
                        result |-> anchors'[anchor]]
    /\ UNCHANGED <<now, msInitialized, activeExtractions, injectionTimestamps,
                   lastContentHashes, runs, bcInitialized, running, contexts,
                   lastCall, extraction, generated, uuids, componentVars>>

AnchorService_updateAnchor(anchor, updates) ==
    LET u == update(anchors, anchor, updates, now)
    IN  /\ anchors' = u.map
        /\ registryCall' = [op |-> "updateAnchor", id |-> anchor,
                            result |-> u.result]
        /\ UNCHANGED <<now, msInitialized, activeExtractions,
                       injectionTimestamps, lastContentHashes, runs,
                       bcInitialized, running, contexts, lastCall, extraction,
                       generated, uuids, componentVars>>

\* the cleanup timer's callback
AnchorService_cleanupOldAnchors ==
    LET old == stale(anchors, now)
    IN  /\ anchors' = Remove(anchors, old)
        /\ registryCall' = [op |-> "cleanupOldAnchors", id |-> Null,
                            result |-> Cardinality(old)]
        /\ UNCHANGED <<now, msInitialized, activeExtractions,
                       injectionTimestamps, lastContentHashes, runs,
                       bcInitialized, running, contexts, lastCall, extraction,
                       generated, uuids, componentVars>>

\* createContext(metadata): the id is a fresh crypto.randomUUID()
ContextService_createContext(metadata, maxUuids) ==
    /\ uuids < maxUuids
    /\ uuids' = uuids + 1
    /\ contexts' = Put(contexts, uuids', createContext(metadata, now))
    /\ registryCall' = [op |-> "createContext", id |-> uuids',
                        result |-> contexts'[uuids']]
    /\ UNCHANGED <<now, msInitialized, activeExtractions, injectionTimestamps,
                   lastContentHashes, runs, bcInitialized, running, anchors,
                   lastCall, extraction, generated, componentVars>>

\* getContext(contextId): a context that is found is refreshed in place
ContextService_getContext(contextId) ==
    /\ contexts' = IF Has(contexts, contextId)
                   THEN [contexts EXCEPT ![contextId].lastActivity = now]
                   ELSE contexts
    /\ registryCall' = [op |-> "getContext", id |-> contextId,
                        result |-> IF Has(contexts, contextId)
                                   THEN contexts'[contextId] ELSE Null]
    /\ UNCHANGED <<now, msInitialized, activeExtractions, injectionTimestamps,
                   lastContentHashes, runs, bcInitialized, running, anchors,
                   lastCall, extraction, generated, uuids, componentVars>>

ContextService_updateContext(contextId, updates) ==
    LET u == update(contexts, contextId, updates, now)
    IN  /\ contexts' = u.map
        /\ registryCall' = [op |-> "updateContext", id |-> contextId,
                            result |-> u.result]
        /\ UNCHANGED <<now, msInitialized, activeExtractions,
                       injectionTimestamps, lastContentHashes, runs,
                       bcInitialized, running, anchors, lastCall, extraction,
                       generated, uuids, componentVars>>

\* the cleanup timer's callback
ContextService_cleanupOldContexts ==
    LET old == stale(contexts, now)
    IN  /\ contexts' = Remove(contexts, old)
        /\ registryCall' = [op |-> "cleanupOldContexts", id |-> Null,
                            result |-> Cardinality(old)]
        /\ UNCHANGED <<now, msInitialized, activeExtractions,
                       injectionTimestamps, lastContentHashes, runs,
                       bcInitialized, running, anchors, lastCall, extraction,
                       generated, uuids, componentVars>>

\* what the callers pass
AnchorMetadata == {NoFields, [status |-> "injected"]}

AnchorUpdates ==
    {NoFields} \cup
    {[status |-> st] : st \in {"responding", "streaming", "complete"}}

ContextMetadata ==
    {NoFields, [lastActivity |-> 0], [lastActivity |-> RegistryTime]}

ContextUpdates == {NoFields, [status |-> "injected"]}

(***************************************************************************)
(* A direct caller of WebSocketExtractor.extractContent.                   *)
(***************************************************************************)
RetryChoices == 1..FinalRetries

\* extractContent(anchorHash, {retries}) against a surface that answers
\* the page list with pages and the k-th probe with probes[k]; the call
\* reads and writes no state of the extractor, so one call per behaviour
\* covers every call
WebSocketExtractor_extractContent(pages, probes, retries) ==
    /\ extraction = NoExtraction
    /\ extraction' = [pages |-> pages, probes |-> probes,
                      retries |-> retries,
                      outcome |-> extractContent(pages, probes, retries)]
    /\ UNCHANGED <<engineVars, generated, registryCall, uuids, componentVars>>

(***************************************************************************)
(* Specifications.                                                         *)
(***************************************************************************)
\* callers of MessageService that compete for one anchor
Next ==
    \/ /\ Advance(MaxTime)
       /\ UNCHANGED directVars
    \/ /\ \E pages \in Pages : MessageService_initialize(pages)
       /\ UNCHANGED directVars
    \/ /\ \E a \in Contended, o \in InjectOutcomes :
             MessageService_injectMessage(a, o)
       /\ UNCHANGED directVars
    \/ /\ \E a \in Contended, t \in 1..MaxTimeout :
             MessageService_streamResponse(a, t, MaxRuns, MaxTime)
       /\ UNCHANGED directVars
    \/ /\ \E r \in RunIds : streamMonitor(r)
       /\ UNCHANGED directVars

Spec == Init /\ [][Next]_vars

\* one caller of MessageService with a long timeout
LongNext ==
    \/ /\ Advance(LongTime)
       /\ UNCHANGED directVars
    \/ /\ \E pages \in Pages : MessageService_initialize(pages)
       /\ UNCHANGED directVars
    \/ /\ \E a \in AnchorPool, o \in InjectOutcomes :
             MessageService_injectMessage(a, o)
       /\ UNCHANGED directVars
    \/ /\ \E a \in AnchorPool, t \in 1..LongTimeout :
             MessageService_streamResponse(a, t, SoloRuns, LongTime)
       /\ UNCHANGED directVars
    \/ /\ \E r \in RunIds : streamMonitor(r)
       /\ UNCHANGED directVars

LongSpec == Init /\ [][LongNext]_vars

\* a client of the HTTP API server
ApiNext ==
    \/ /\ Advance(MaxTime)
       /\ UNCHANGED directVars
    \/ /\ \E a \in AnchorPool, o \in InjectOutcomes :
             ControlMethods_injectMessage(a, o)
       /\ UNCHANGED directVars
    \/ /\ \E a \in AnchorPool, t \in 1..MaxTimeout, s \in BOOLEAN :
             Endpoint_monitor(a, t, s, SoloRuns, MaxTime)
       /\ UNCHANGED directVars
    \/ /\ \E r \in RunIds : streamMonitor(r)
       /\ UNCHANGED directVars

ApiSpec == Init /\ [][ApiNext]_vars

\* a plugin on BridgeCore
BridgeNext ==
    \/ /\ Advance(MaxTime)
       /\ UNCHANGED directVars
    \/ /\ \E pages \in Pages : BridgeCore_initialize(pages)
       /\ UNCHANGED directVars
    \/ /\ BridgeCore_start
       /\ UNCHANGED directVars
    \/ /\ \E a \in Contended, c \in ContextIds, o \in InjectOutcomes :
             BridgeCore_injectMessage(a, c, o)
       /\ UNCHANGED directVars
    \/ /\ \E a \in Contended, x \in ServiceExtractions :
             BridgeCore_extractResponse(a, x)
       /\ UNCHANGED directVars
    \/ /\ \E a \in Contended, t \in 1..MaxTimeout :
             BridgeCore_streamResponse(a, t, SoloRuns, MaxTime)
       /\ UNCHANGED directVars
    \/ /\ \E r \in RunIds : streamMonitor(r)
       /\ UNCHANGED directVars

BridgeSpec == Init /\ [][BridgeNext]_vars

\* a direct caller of extractContent
ExtractNext ==
    \E retries \in RetryChoices : \E i \in ExtractInputs(retries) :
        WebSocketExtractor_extractContent(i[1], i[2], retries)

ExtractSpec == Init /\ [][ExtractNext]_vars

\* callers of the id generators, from any clock value on
AnchorIdInit ==
    /\ now \in 0..MaxClock
    /\ Constructed

AnchorIdNext ==
    \/ Tick(MaxClock)
    \/ \E by \in Generators, randomId \in RandomIds :
          GenerateAnchor(by, randomId, MaxGenerated)

AnchorIdSpec == AnchorIdInit /\ [][AnchorIdNext]_vars

\* a caller of AnchorService
AnchorNext ==
    \/ /\ Advance(RegistryTime)
       /\ UNCHANGED directVars
    \/ \E a \in AnchorPool, m \in AnchorMetadata :
          AnchorService_trackAnchor(a, m)
    \/ \E a \in AnchorPool, u \in AnchorUpdates :
          AnchorService_updateAnchor(a, u)
    \/ AnchorService_cleanupOldAnchors

AnchorSpec == Init /\ [][AnchorNext]_vars

\* a caller of ContextService
ContextNext ==
    \/ /\ Advance(RegistryTime)
       /\ UNCHANGED directVars
    \/ \E m \in ContextMetadata : ContextService_createContext(m, MaxUuids)
    \/ \E c \in 1..MaxUuids : ContextService_getContext(c)
    \/ \E c \in 1..MaxUuids, u \in ContextUpdates :
          ContextService_updateContext(c, u)
    \/ ContextService_cleanupOldContexts

ContextSpec == Init /\ [][ContextNext]_vars

\* a caller of both registries
RegistryNext ==
    \/ /\ Advance(RegistryTime)
       /\ UNCHANGED directVars
    \/ \E a \in AnchorPool : AnchorService_trackAnchor(a, NoFields)
    \/ \E a \in AnchorPool, u \in {[status |-> "streaming"]} :
          AnchorService_updateAnchor(a, u)
    \/ AnchorService_cleanupOldAnchors
    \/ ContextService_createContext(NoFields, PairedUuids)
    \/ \E c \in 1..PairedUuids, u \in ContextUpdates :
          ContextService_updateContext(c, u)
    \/ ContextService_cleanupOldContexts

RegistrySpec == Init /\ [][RegistryNext]_vars

\* callers of MessageService with two anchors
CapNext ==
    \/ /\ Advance(CapTime)
       /\ UNCHANGED directVars
    \/ /\ \E pages \in Pages : MessageService_initialize(pages)
       /\ UNCHANGED directVars
    \/ /\ \E a \in AnchorPool, o \in InjectOutcomes :
             MessageService_injectMessage(a, o)
       /\ UNCHANGED directVars
    \/ /\ \E a \in AnchorPool, t \in 1..CapTimeout :
             MessageService_streamResponse(a, t, MaxRuns, CapTime)
       /\ UNCHANGED directVars
    \/ /\ \E r \in RunIds : streamMonitor(r)
       /\ UNCHANGED directVars

CapSpec == Init /\ [][CapNext]_vars

\* one caller of MessageService that also stops the service
StopNext ==
    \/ /\ Advance(MaxTime)
       /\ UNCHANGED directVars
    \/ /\ \E pages \in Pages : MessageService_initialize(pages)
       /\ UNCHANGED directVars
    \/ /\ \E a \in Contended, o \in InjectOutcomes :
             MessageService_injectMessage(a, o)
       /\ UNCHANGED directVars
    \/ /\ \E a \in Contended, t \in 1..MaxTimeout :
             MessageService_streamResponse(a, t, SoloRuns, MaxTime)
       /\ UNCHANGED directVars
    \/ /\ \E r \in RunIds : streamMonitor(r)
       /\ UNCHANGED directVars
    \/ /\ MessageService_stop
       /\ UNCHANGED directVars

StopSpec == Init /\ [][StopNext]_vars

\* one caller of MessageService whose monitor may wait for the start of
\* the response beyond the fallback delay
StartNext ==
    \/ /\ Advance(StartTime)
       /\ UNCHANGED directVars
    \/ /\ \E pages \in Pages : MessageService_initialize(pages)
       /\ UNCHANGED directVars
    \/ /\ \E a \in Contended, o \in InjectOutcomes :
             MessageService_injectMessage(a, o)
       /\ UNCHANGED directVars
    \/ /\ \E a \in Contended :
             MessageService_streamResponse(a, StartTimeout, SoloRuns,
                                           StartTime)
       /\ UNCHANGED directVars
    \/ /\ \E r \in RunIds : streamMonitor(r)
       /\ UNCHANGED directVars

StartSpec == Init /\ [][StartNext]_vars

(***************************************************************************)
(* One executeJavaScript call, handler by handler.  The promise executor   *)
(* opens a socket and arms a timer; the socket's events and the timer run  *)
(* the handlers the implementation registered.  A promise settles once:    *)
(* resolve and reject on a settled promise do nothing.                     *)
(*   socket: connecting, open, closing (ws.close() was called), closed     *)
(*   timer: armed, cleared, fired                                          *)
(*   promise: pending, resolved, rejected                                  *)
(***************************************************************************)
settle(call, how) ==
    IF call.promise = "pending" THEN [call EXCEPT !.promise = how] ELSE call

clearTimeout(call) ==
    IF call.timer = "armed" THEN [call EXCEPT !.timer = "cleared"] ELSE call

\* ws.close() on a socket that is not closed yet starts the closing
\* handshake; the close event follows
wsClose(call) ==
    IF call.socket \in {"connecting", "open"}
    THEN [call EXCEPT !.socket = "closing"] ELSE call

\* only WebSocketExtractor.executeJavaScript registers a close handler
HasCloseHandler(i) == i = "extractor"

\* the messages a socket can deliver: the reply to the command (id 1), a
\* message with another id, bytes that do not parse
Messages == {"reply", "wrongid", "garbage"}

\* new Promise(...): new WebSocket(wsUrl), setTimeout(..., timeout)
Probe_executeJavaScript(i) ==
    /\ probeCalls[i] = NoProbe
    /\ probeCalls' = [probeCalls EXCEPT ![i] =
           [socket |-> "connecting", timer |-> "armed", promise |-> "pending"]]
    /\ UNCHANGED <<engineVars, extraction, generated, registryCall, uuids,
                   surface, attributed, apiServer, pluginState,
                   monitorState, authState>>

\* ws.on('open'): the command is sent
Probe_onOpen(i) ==
    /\ probeCalls[i].socket = "connecting"
    /\ probeCalls' = [probeCalls EXCEPT ![i].socket = "open"]
    /\ UNCHANGED <<engineVars, extraction, generated, registryCall, uuids,
                   surface, attributed, apiServer, pluginState,
                   monitorState, authState>>

\* ws.on('message')
onMessage(i, call, m) ==
    LET cleared == clearTimeout(call)
    IN  IF i = "simple"
        THEN \* clearTimeout; ws.close(); then parse
             LET closed == wsClose(cleared)
             IN  CASE m = "reply" -> settle(closed, "resolved")
                   [] m = "wrongid" -> closed
                   [] m = "garbage" -> settle(closed, "rejected")
        ELSE \* clearTimeout; parse; close and settle on id 1 or on a parse
             \* error (DOMObserver resolves or rejects by the reply's shape)
             CASE m = "reply" -> settle(wsClose(cleared), "resolved")
               [] m = "wrongid" -> cleared
               [] m = "garbage" -> settle(wsClose(cleared), "rejected")

Probe_onMessage(i, m) ==
    /\ probeCalls[i].socket = "open"
    /\ probeCalls' = [probeCalls EXCEPT ![i] = onMessage(i, probeCalls[i], m)]
    /\ UNCHANGED <<engineVars, extraction, generated, registryCall, uuids,
                   surface, attributed, apiServer, pluginState,
                   monitorState, authState>>

\* ws.on('error'): the socket failed; it is closed afterwards
Probe_onError(i) ==
    /\ probeCalls[i].socket \in {"connecting", "open"}
    /\ probeCalls' = [probeCalls EXCEPT ![i] =
           [settle(clearTimeout(probeCalls[i]), "rejected")
               EXCEPT !.socket = "closed"]]
    /\ UNCHANGED <<engineVars, extraction, generated, registryCall, uuids,
                   surface, attributed, apiServer, pluginState,
                   monitorState, authState>>

\* the close event: the peer closed an open socket, or the closing
\* handshake that ws.close() started has ended
Probe_onClose(i) ==
    /\ probeCalls[i].socket \in {"open", "closing"}
    /\ probeCalls' = [probeCalls EXCEPT ![i] =
           [(IF HasCloseHandler(i) THEN clearTimeout(probeCalls[i])
             ELSE probeCalls[i]) EXCEPT !.socket = "closed"]]
    /\ UNCHANGED <<engineVars, extraction, generated, registryCall, uuids,
                   surface, attributed, apiServer, pluginState,
                   monitorState, authState>>

\* the timer's callback: ws.close(); reject(new Error('WebSocket timeout'))
Probe_onTimeout(i) ==
    /\ probeCalls[i].timer = "armed"
    /\ probeCalls' = [probeCalls EXCEPT ![i] =
           settle(wsClose([probeCalls[i] EXCEPT !.timer = "fired"]),
                  "rejected")]
    /\ UNCHANGED <<engineVars, extraction, generated, registryCall, uuids,
                   surface, attributed, apiServer, pluginState,
                   monitorState, authState>>

ProbeNext ==
    \/ \E i \in ProbeImpls : Probe_executeJavaScript(i)
    \/ \E i \in ProbeImpls : Probe_onOpen(i)
    \/ \E i \in ProbeImpls, m \in Messages : Probe_onMessage(i, m)
    \/ \E i \in ProbeImpls : Probe_onError(i)
    \/ \E i \in ProbeImpls : Probe_onClose(i)
    \/ \E i \in ProbeImpls : Probe_onTimeout(i)

\* an armed timer fires: Node runs a timer that is due; the socket owes
\* nothing
ProbeSpec ==
    /\ Init
    /\ [][ProbeNext]_vars
    /\ \A i \in ProbeImpls : WF_vars(Probe_onTimeout(i))

(***************************************************************************)
(* The conversation page and the queries that read it.  A message is a     *)
(* request the bridge injected or a response of Claude:                    *)
(*   anchor: the anchor the injected text carries ("ANCHOR: <id>"); for a  *)
(*       response, the anchor of the request it answers                    *)
(*   header: "bridge" for a request that came with a                       *)
(*       "[BRIDGE: #channel | User: u | date]" header, which gets          *)
(*       "| ANCHOR: <id>" inserted; "plain" for "[ANCHOR: <id>] text"      *)
(*   short: the text has fewer than 10 characters                          *)
(* A query's result is the set of positions of the messages whose text it  *)
(* returns.                                                                *)
(***************************************************************************)
Headers == {"bridge", "plain"}

Request(a, header) ==
    [kind |-> "request", anchor |-> a, header |-> header, short |-> FALSE]

Response(a, short) ==
    [kind |-> "response", anchor |-> a, header |-> "none", short |-> short]

\* messageText.includes('ANCHOR: ' + anchorId)
includesAnchor(m, anchorId) == m.kind = "request" /\ m.anchor = anchorId

\* responseText.includes('[BRIDGE:')
includesBridge(m) == m.kind = "request" /\ m.header = "bridge"

Min(S) == CHOOSE x \in S : \A y \in S : x <= y

Max(S) == CHOOSE x \in S : \A y \in S : y <= x

\* the first query of generateExtractionQueries: the first message with the
\* anchor, then the first later message that is not short and carries
\* neither this anchor nor a bridge header
sequentialAfterAnchor(messages, anchorId) ==
    LET anchored == {i \in 1..Len(messages) :
                        includesAnchor(messages[i], anchorId)}
    IN  IF anchored = {} THEN {}
        ELSE LET after == {i \in (Min(anchored) + 1)..Len(messages) :
                              /\ ~messages[i].short
                              /\ ~includesAnchor(messages[i], anchorId)
                              /\ ~includesBridge(messages[i])}
             IN  IF after = {} THEN {} ELSE {Min(after)}

\* the second query: the turn next to the first turn with the anchor, if it
\* carries no anchor and no bridge header; extractContent takes a result of
\* more than MinContentLength characters only
conversationTurns(messages, anchorId) ==
    LET anchored == {i \in 1..Len(messages) :
                        includesAnchor(messages[i], anchorId)}
    IN  IF anchored = {} \/ Min(anchored) >= Len(messages) THEN {}
        ELSE LET next == messages[Min(anchored) + 1]
             IN  IF next.kind = "response" /\ ~next.short
                 THEN {Min(anchored) + 1} ELSE {}

\* extractContent(anchorHash): the first query with a result wins
anchorQueries(messages, anchorId) ==
    IF sequentialAfterAnchor(messages, anchorId) # {}
    THEN sequentialAfterAnchor(messages, anchorId)
    ELSE conversationTurns(messages, anchorId)

\* parseConversationFromText of simple-extraction.js: the text after the
\* latest line with a bridge header; with no such line, the recent
\* substantial lines of the page
parseConversationFromText(messages) ==
    LET bridgeMessages == {i \in 1..Len(messages) : includesBridge(messages[i])}
    IN  IF bridgeMessages = {}
        THEN {i \in 1..Len(messages) : ~messages[i].short}
        ELSE {i \in (Max(bridgeMessages) + 1)..Len(messages) :
                 ~messages[i].short}

Injected(a) == \E i \in 1..Len(surface) : includesAnchor(surface[i], a)

\* DOMInjector.injectMessage: the request, with its anchor, is submitted
Surface_injectMessage(a, header) ==
    /\ Len(surface) < MaxMessages
    /\ ~Injected(a)
    /\ surface' = Append(surface, Request(a, header))
    /\ UNCHANGED <<engineVars, extraction, generated, registryCall, uuids,
                   probeCalls, attributed, apiServer,
                   pluginState, monitorState, authState>>

\* Claude answers the request that is the last message of the page
Surface_respond(short) ==
    /\ Len(surface) < MaxMessages
    /\ surface # << >>
    /\ surface[Len(surface)].kind = "request"
    /\ surface' = Append(surface,
                         Response(surface[Len(surface)].anchor, short))
    /\ UNCHANGED <<engineVars, extraction, generated, registryCall, uuids,
                   probeCalls, attributed, apiServer,
                   pluginState, monitorState, authState>>

\* WebSocketExtractor.extractContent(anchorHash) reads the page
Surface_extractContent(a) ==
    /\ attributed' = [by |-> "extractContent", anchor |-> a,
                      messages |-> anchorQueries(surface, a)]
    /\ UNCHANGED <<engineVars, extraction, generated, registryCall, uuids,
                   probeCalls, surface, apiServer,
                   pluginState, monitorState, authState>>

\* a tick of the interval startProactiveMonitoring(anchor) set after the
\* injection: extractContentSimple reads the page, the content is
\* broadcast as a response_update of the anchor
Surface_proactiveMonitoring(a) ==
    /\ Injected(a)
    /\ attributed' = [by |-> "proactiveMonitoring", anchor |-> a,
                      messages |-> parseConversationFromText(surface)]
    /\ UNCHANGED <<engineVars, extraction, generated, registryCall, uuids,
                   probeCalls, surface, apiServer,
                   pluginState, monitorState, authState>>

SurfaceNext ==
    \/ \E a \in AnchorPool, header \in Headers :
          Surface_injectMessage(a, header)
    \/ \E short \in BOOLEAN : Surface_respond(short)
    \/ \E a \in AnchorPool : Surface_extractContent(a)
    \/ \E a \in AnchorPool : Surface_proactiveMonitoring(a)

SurfaceSpec == Init /\ [][SurfaceNext]_vars

(***************************************************************************)
(* The initialization of the API server.  POST /claude/initialize and      *)
(* ensureInitialized (the first statement of the other endpoints) run the  *)
(* same steps: if (!this.isInitialized) { await this.claude.initialize();  *)
(* this.isInitialized = true; }.  ClaudeDesktopInterface.initialize        *)
(* catches its own failure and returns false.                              *)
(***************************************************************************)
Endpoints == {"initialize", "ensureInitialized"}

\* the handler up to its await
Api_begin(q, endpoint) ==
    /\ apiServer.requests[q].pc = "idle"
    /\ apiServer' = [apiServer EXCEPT !.requests[q] =
           IF apiServer.isInitialized
           THEN [pc |-> "returned", endpoint |-> endpoint, ran |-> FALSE]
           ELSE [pc |-> "initializing", endpoint |-> endpoint]]
    /\ UNCHANGED <<engineVars, extraction, generated, registryCall, uuids,
                   probeCalls, surface, attributed, pluginState,
                   monitorState, authState>>

\* ClaudeDesktopInterface.initialize ends: with the debug connection it
\* sets initialized and returns true, without it it returns false; the
\* handler resumes and sets isInitialized
Api_resume(q, chromeConnected) ==
    /\ apiServer.requests[q].pc = "initializing"
    /\ apiServer' = [apiServer EXCEPT
           !.initialized = @ \/ chromeConnected,
           !.isInitialized = TRUE,
           !.requests[q] = [pc |-> "returned",
                            endpoint |-> apiServer.requests[q].endpoint,
                            ran |-> TRUE]]
    /\ UNCHANGED <<engineVars, extraction, generated, registryCall, uuids,
                   probeCalls, surface, attributed, pluginState,
                   monitorState, authState>>

ApiInitNext ==
    \/ \E q \in Requests, endpoint \in Endpoints : Api_begin(q, endpoint)
    \/ \E q \in Requests, chromeConnected \in BOOLEAN :
          Api_resume(q, chromeConnected)

ApiInitSpec == Init /\ [][ApiInitNext]_vars

(***************************************************************************)
(* PluginManager.registerPlugin.  The call runs to its first await         *)
(* (plugin.initialize()) in one step and resumes in another; calls that    *)
(* are suspended there interleave.                                         *)
(***************************************************************************)
Rejected(name) == [pc |-> "threw", name |-> name]

PluginManager_initialize ==
    /\ ~pluginState.initialized
    /\ pluginState' = [pluginState EXCEPT !.initialized = TRUE]
    /\ UNCHANGED <<engineVars, extraction, generated, registryCall, uuids,
                   probeCalls, surface, attributed, apiServer,
                   monitorState, authState>>

\* the checks, new PluginClass(config), this.core.registerPlugin(plugin),
\* up to await plugin.initialize()
PluginManager_registerPlugin(c, name) ==
    /\ pluginState.calls[c].pc = "idle"
    /\ pluginState' =
          IF \/ ~pluginState.initialized
             \/ Cardinality(pluginState.manager) >= ConfigMaxPlugins
             \/ name \in pluginState.manager
             \/ name \in pluginState.core
          THEN [pluginState EXCEPT !.calls[c] = Rejected(name)]
          ELSE [pluginState EXCEPT
                   !.core = @ \cup {name},
                   !.calls[c] = [pc |-> "initializing", name |-> name]]
    /\ UNCHANGED <<engineVars, extraction, generated, registryCall, uuids,
                   probeCalls, surface, attributed, apiServer,
                   monitorState, authState>>

\* plugin.initialize() settles; after a success the plugin is stored and,
\* with autoStart, started; the catch block logs, emits and rethrows
PluginManager_registerPluginResumes(c, initialized, started) ==
    LET name == pluginState.calls[c].name
    IN  /\ pluginState.calls[c].pc = "initializing"
        /\ pluginState' =
              IF ~initialized
              THEN [pluginState EXCEPT !.calls[c] = Rejected(name)]
              ELSE [pluginState EXCEPT
                       !.manager = @ \cup {name},
                       !.calls[c] = IF started
                                    THEN [pc |-> "returned", name |-> name]
                                    ELSE Rejected(name)]
        /\ UNCHANGED <<engineVars, extraction, generated, registryCall,
                       uuids, probeCalls, surface, attributed, apiServer,
                       monitorState, authState>>

\* PluginManager.unregisterPlugin(name) of a stored plugin:
\* this.core.unregisterPlugin(name), then this.plugins.delete(name)
PluginManager_unregisterPlugin(name) ==
    /\ name \in pluginState.manager
    /\ name \in pluginState.core
    /\ pluginState' = [pluginState EXCEPT !.manager = @ \ {name},
                                          !.core = @ \ {name}]
    /\ UNCHANGED <<engineVars, extraction, generated, registryCall, uuids,
                   probeCalls, surface, attributed, apiServer,
                   monitorState, authState>>

PluginNext ==
    \/ PluginManager_initialize
    \/ \E c \in Registrations, name \in PluginNames :
          PluginManager_registerPlugin(c, name)
    \/ \E c \in Registrations, initialized, started \in BOOLEAN :
          PluginManager_registerPluginResumes(c, initialized, started)
    \/ \E name \in PluginNames : PluginManager_unregisterPlugin(name)

PluginSpec == Init /\ [][PluginNext]_vars

(***************************************************************************)
(* StateMonitorManager.  The four monitors have the same shape: a tick     *)
(* returns at once if the manager is not enabled, else awaits the probe of *)
(* DOMObserver and writes what it observed (after a probe that threw, the  *)
(* error) to its category of the desktop state.                            *)
(***************************************************************************)
\* what a probe reports of its element (enabled, visible, active), or that
\* it threw
Observations == {"true", "false", "error"}

\* the tick up to its await
tickStarts(state, t) ==
    IF state.enabled THEN [state EXCEPT !.inFlight[t] = @ + 1] ELSE state

\* startAllMonitors: every start<X>Monitor runs its initial check and sets
\* its interval
Monitors_startAllMonitors ==
    /\ ~monitorState.enabled
    /\ \A t \in MonitorTypes : monitorState.inFlight[t] < MaxInFlight
    /\ monitorState' =
          [monitorState EXCEPT
              !.enabled = TRUE,
              !.intervals = MonitorTypes,
              !.inFlight = [t \in MonitorTypes |-> @[t] + 1]]
    /\ UNCHANGED <<engineVars, extraction, generated, registryCall, uuids,
                   probeCalls, surface, attributed, apiServer, pluginState,
                   authState>>

\* the interval of monitor t fires
Monitors_intervalFires(t) ==
    /\ t \in monitorState.intervals
    /\ monitorState.inFlight[t] < MaxInFlight
    /\ monitorState' = tickStarts(monitorState, t)
    /\ UNCHANGED <<engineVars, extraction, generated, registryCall, uuids,
                   probeCalls, surface, attributed, apiServer, pluginState,
                   authState>>

\* the probe of a tick of monitor t settles and the tick goes on:
\* this.state.updateState(t, ...)
Monitors_tickResumes(t, observation) ==
    /\ monitorState.inFlight[t] > 0
    /\ monitorState' = [monitorState EXCEPT !.inFlight[t] = @ - 1,
                                            !.desktop[t] = observation]
    /\ UNCHANGED <<engineVars, extraction, generated, registryCall, uuids,
                   probeCalls, surface, attributed, apiServer, pluginState,
                   authState>>

\* stopAllMonitors: enabled = false, clearInterval for every monitor,
\* monitors.clear()
Monitors_stopAllMonitors ==
    /\ monitorState.enabled
    /\ monitorState' = [monitorState EXCEPT !.enabled = FALSE,
                                            !.intervals = {}]
    /\ UNCHANGED <<engineVars, extraction, generated, registryCall, uuids,
                   probeCalls, surface, attributed, apiServer, pluginState,
                   authState>>

MonitorNext ==
    \/ Monitors_startAllMonitors
    \/ \E t \in MonitorTypes : Monitors_intervalFires(t)
    \/ \E t \in MonitorTypes, observation \in Observations :
          Monitors_tickResumes(t, observation)
    \/ Monitors_stopAllMonitors

MonitorSpec == Init /\ [][MonitorNext]_vars

(***************************************************************************)
(* AuthService.validateSession.  The call awaits the page list of the      *)
(* debug endpoint; what follows the awaits runs in one piece.              *)
(***************************************************************************)
\* the page list has a Claude page, has none, or the fetch failed
SessionChecks == {"page", "nopage", "failed"}

\* an event for every call, whether or not it changed sessionValid
sessionEventAlways(isValid, wasValid) ==
    <<IF isValid THEN "session-established" ELSE "session-lost">>

\* if (isValid !== wasValid) this.emit(isValid ? 'session-established'
\* : 'session-lost'); in the catch block isValid is false
sessionEvent(isValid, wasValid) ==
    IF isValid # wasValid
    THEN <<IF isValid THEN "session-established" ELSE "session-lost">>
    ELSE << >>

\* the call up to await fetch(...)
AuthService_validateSession(c) ==
    /\ authState.calls[c].pc = "idle"
    /\ authState' = [authState EXCEPT !.calls[c] = [pc |-> "fetching"]]
    /\ UNCHANGED <<engineVars, extraction, generated, registryCall, uuids,
                   probeCalls, surface, attributed, apiServer, pluginState,
                   monitorState>>

\* the fetch settles: sessionValid is set, the event emitted, the verdict
\* returned
AuthService_validateSessionResumes(c, check) ==
    LET isValid == check = "page"
        wasValid == authState.sessionValid
    IN  /\ authState.calls[c].pc = "fetching"
        /\ authState' =
              [authState EXCEPT
                  !.sessionValid = isValid,
                  !.events = @ \o sessionEvent(isValid, wasValid),
                  !.calls[c] = [pc |-> "returned", check |-> check,
                                result |-> isValid]]
        /\ UNCHANGED <<engineVars, extraction, generated, registryCall,
                       uuids, probeCalls, surface, attributed, apiServer,
                       pluginState, monitorState>>

AuthNext ==
    \/ \E c \in Validations : AuthService_validateSession(c)
    \/ \E c \in Validations, check \in SessionChecks :
          AuthService_validateSessionResumes(c, check)

AuthSpec == Init /\ [][AuthNext]_vars

(***************************************************************************)
(* Properties.                                                             *)
(***************************************************************************)
Complete(r) == runs[r].pc = "resolved" /\ runs[r].result.complete

\* the positions of the complete:true updates an invocation has delivered
Terminals(run) == {i \in 1..Len(run.delivered) : run.delivered[i].complete}

\* C1: single-flight -- at any time at most one monitor loop of an extractor
\* is active per anchor; a second stream request for the anchor never starts
\* a second poll cycle.
C1_SingleFlight ==
    \A r1, r2 \in RunIds :
        (r1 # r2 /\ Active(r1) /\ Active(r2) /\ runs[r1].ext = runs[r2].ext)
            => runs[r1].anchor # runs[r2].anchor

\* C2: completion requires content -- no monitor run ends with complete:true
\* while the content it holds does not exceed the noise threshold.
C2_CompleteHasContent ==
    \A r \in RunIds :
        Complete(r) => Len(runs[r].result.content) > MinContentLength

\* C3: conservative completion -- a run is declared complete only on a tick
\* whose completion probe could read the busy indicator and read it as not
\* busy; on a tick whose probe cannot be resolved completion is not declared,
\* whatever the length of the extracted content.
C3_ConservativeCompletion ==
    \A r \in RunIds :
        Complete(r) => runs[r].signal.resolved /\ ~runs[r].signal.stillBusy

\* a tick extracted content above the threshold, its completion probe could
\* not be resolved, and the run was rescheduled instead of completed
C3_UnresolvedProbeSeen ==
    \E r \in RunIds :
        /\ runs[r].pc = "timer"
        /\ runs[r].wakeAt > now
        /\ runs[r].sink = "guarded"
        /\ Len(runs[r].tickContent) > MinContentLength
        /\ ~runs[r].signal.resolved

\* C4: timeout -- a monitor run with a finite timeout always remains able to
\* resolve: it is resolved, or its next tick (which checks the timeout) is
\* scheduled.
C4_TimeoutStillReachable ==
    \A r \in RunIds : runs[r].pc \in {"timer", "resolved"}

\* C5: monotonic streaming -- the content lengths of the updates a run
\* delivers, the terminal update included, never decrease, and the streamed
\* (complete:false) updates strictly grow: a changed fingerprint whose
\* content is not longer than the last delivered content is not emitted.
C5_MonotonicStreaming ==
    \A r \in RunIds :
        \A i, j \in 1..Len(runs[r].delivered) :
            i < j =>
               LET a == runs[r].delivered[i]
                   b == runs[r].delivered[j]
               IN  /\ Len(a.content) <= Len(b.content)
                   /\ (~a.complete /\ ~b.complete)
                         => Len(a.content) < Len(b.content)

\* a tick extracted content with a new fingerprint that is not longer than
\* the content delivered before, and delivered nothing for it
C5_ShorterChangeSeen ==
    \E r \in RunIds :
        LET run == runs[r]
        IN  /\ run.pc = "timer"
            /\ run.delivered # << >>
            /\ run.tickContent # Empty
            /\ run.tickContent # run.lastContent
            /\ Len(run.tickContent) <= Len(run.lastContent)
            /\ Has(lastContentHashes[run.ext], run.anchor)
            /\ lastContentHashes[run.ext][run.anchor]
                  = hashContent(run.tickContent)
            /\ run.delivered[Len(run.delivered)].content = run.lastContent

\* C6: no duplicate on unchanged content -- a tick that extracts the content
\* the previous tick of the same run extracted delivers no stream update
\* (complete:false) for it.
C6_NoUpdateOnUnchanged ==
    [][\A r \in RunIds :
          (/\ runs[r].pc = "timer"
           /\ runs'[r] # runs[r]
           /\ runs[r].tickContent # Empty
           /\ runs'[r].tickContent = runs[r].tickContent)
          => \A i \in (Len(runs[r].delivered) + 1)..Len(runs'[r].delivered) :
                runs'[r].delivered[i].complete]_vars

\* C7: exactly one terminal update -- every monitor run that has a sink and
\* has resolved delivered exactly one complete:true update, as its last one.
C7_ExactlyOneTerminal ==
    \A r \in RunIds :
        (runs[r].pc = "resolved" /\ runs[r].sink # "none")
            => Terminals(runs[r]) = {Len(runs[r].delivered)} \ {0}
                  /\ runs[r].delivered # << >>

\* C8: one update per growth event -- a run that received the growing
\* contents C1, C2, C3 and then resolved complete delivered exactly three
\* updates, one per content in that order, the last one complete:true.
C8_OneUpdatePerGrowth ==
    \A r \in RunIds :
        (/\ Complete(r)
         /\ {runs[r].delivered[i].content :
                i \in 1..Len(runs[r].delivered)} = {C1, C2, C3})
            => runs[r].delivered =
                  << [content |-> C1, complete |-> FALSE],
                     [content |-> C2, complete |-> FALSE],
                     [content |-> C3, complete |-> TRUE] >>

\* C9 as stated: a plugin-API call that ends in a terminal failure
\* (injection failed, extraction failed, monitor timeout) returns a result
\* with success:false and a message; it never throws.
C9_ErrorsAreValues ==
    lastCall.failure \in {"injection", "extraction", "timeout"}
        => /\ lastCall.outcome = "returned"
           /\ ~lastCall.success
           /\ lastCall.message # ""

\* C9 amended: streamResponse returns a monitor timeout as a result with
\* success:false and a message; injectMessage and extractResponse end a
\* failed injection or extraction by throwing an error that carries the
\* message, and what they return always has success:true.
C9_FailuresThrownExceptTimeout ==
    /\ lastCall.failure \in {"injection", "extraction"}
          => lastCall.outcome = "threw" /\ lastCall.message # ""
    /\ lastCall.failure = "timeout"
          => /\ lastCall.op = "streamResponse"
             /\ lastCall.outcome = "returned"
             /\ ~lastCall.success
             /\ lastCall.message = "Response monitoring timeout"
    /\ (lastCall.outcome = "returned"
          /\ lastCall.op \in {"injectMessage", "extractResponse"})
          => lastCall.success

\* an extraction through BridgeCore has failed
C9_ExtractionFailed ==
    lastCall.op = "extractResponse" /\ lastCall.failure = "extraction"

\* C10: sink errors are contained -- whatever the sink throws, a run never
\* delivers its terminal update twice, and a run that delivered its terminal
\* update resolves with the completed result.
C10_SinkErrorsContained ==
    \A r \in RunIds :
        /\ Cardinality(Terminals(runs[r])) <= 1
        /\ (runs[r].pc = "resolved" /\ Terminals(runs[r]) # {})
              => runs[r].result.success /\ runs[r].result.complete

\* whether a probe outcome carries content the chain accepts
Accepted(o) ==
    /\ o.kind = "resolve"
    /\ o.value # NoValue
    /\ Len(o.value.content) > MinContentLength

\* the position in the chain of attempt `attempt` (from 1) of strategy
\* `queryIndex` (from 0)
ChainPosition(queryIndex, attempt, retries) == queryIndex * retries + attempt

\* C11: ordered fallback chain -- extractContent walks the strategies in
\* list order with at most `retries` attempts each; when it returns success
\* the content is that of the first (strategy, attempt) pair in this order
\* whose probe returned content above the threshold, the reported strategy
\* index and attempt number name that pair, and no probe follows the winning
\* one; and it does return success when such a pair exists and every probe
\* before it settled.
C11_OrderedFallbackChain ==
    (extraction.pages = "ok") =>
        LET x == extraction.outcome
            retries == extraction.retries
            probes == extraction.probes
            total == NumQueries * retries
            good == {k \in 1..total :
                        /\ Accepted(probes[k])
                        /\ \A j \in 1..(k - 1) : probes[j].kind # "pending"}
        IN  /\ (x.kind = "return" /\ x.result.success) =>
                  LET k == ChainPosition(x.result.queryIndex,
                                         x.result.attempt, retries)
                  IN  /\ x.result.queryIndex \in 0..(NumQueries - 1)
                      /\ x.result.attempt \in 1..retries
                      /\ Accepted(probes[k])
                      /\ x.result.content = probes[k].value.content
                      /\ \A j \in 1..(k - 1) : ~Accepted(probes[j])
                      /\ x.probes = k
            /\ good # {} => x.kind = "return" /\ x.result.success

\* C11 witness: the first attempt of the second strategy wins after a rejected
\* and a refused probe of the first strategy, and a later
\* attempt was ready to answer with other accepted content
C11_LaterStrategyWon ==
    /\ extraction.pages = "ok"
    /\ extraction.retries = FinalRetries
    /\ extraction.outcome.kind = "return"
    /\ extraction.outcome.result.success
    /\ extraction.outcome.result.queryIndex = 1
    /\ extraction.outcome.result.attempt = 1
    /\ extraction.outcome.result.content = C1
    /\ Accepted(extraction.probes[4])
    /\ extraction.probes[4].value.content = C2
    /\ extraction.probes[1].kind = "reject"
    /\ extraction.probes[2].kind = "resolve"

\* C12: probe failures are absorbed -- with the surface reachable,
\* extractContent never throws and never stops at a failed probe: it
\* returns, and it returns success:false with empty content only after all
\* strategies x retries probes were made and none was accepted.
C12_ProbeFailuresAbsorbed ==
    (extraction.pages = "ok") =>
        LET x == extraction.outcome
            total == NumQueries * extraction.retries
        IN  /\ x.kind = "return"
            /\ ~x.result.success =>
                  /\ x.probes = total
                  /\ x.result.content = Empty
                  /\ \A k \in 1..total : ~Accepted(extraction.probes[k])

\* C13: unreachable surface is fatal and immediate -- when a tick of a
\* monitor run finds the surface unreachable (extractContent throws because
\* the debug endpoint does not answer or lists no Claude page), the run
\* ends at once with a failure for its caller; it is not left to poll again.
C13_UnreachableIsFatal ==
    \A r \in RunIds :
        runs[r].surfaceLost =>
            /\ runs[r].pc = "resolved"
            /\ ~runs[r].result.success

\* C17: anchor uniqueness -- no two generate calls return the same id,
\* calls within one clock tick included, whatever the random suffixes are.
C17_AnchorsUnique ==
    \A i, j \in 1..Len(generated) :
        i # j => generated[i].anchor # generated[j].anchor

\* C18: timestamp round-trip -- extractTimestamp of every generated id is
\* the clock value its generate call read, for every clock value and every
\* random suffix.
C18_TimestampRoundTrip ==
    \A i \in 1..Len(generated) :
        extractTimestamp(generated[i].anchor) = generated[i].timestamp

\* C18 witness: ids with a one-digit and with a two-digit timestamp were
\* generated, one of them with a suffix that begins with digits
C18_MultiDigitGenerated ==
    /\ Len(generated) = MaxGenerated
    /\ generated[1].timestamp = 9
    /\ generated[2].timestamp = 10
    /\ generated[2].anchor = <<109, 115, 103, 95, 49, 48, 95,
                               49, 50, 97, 98, 57, 122>>

\* the statuses of an anchor whose response is in flight
InFlight == {"responding", "streaming"}

\* C14: sweep protection -- no step removes an anchor record whose status
\* is responding or streaming, however old its lastActivity is: an in-flight
\* anchor is still in the registry afterwards.
C14_SweepKeepsInFlight ==
    [][\A a \in DOMAIN anchors :
          anchors[a].status \in InFlight => a \in DOMAIN anchors']_vars

\* a step that is a call of operation op on the registries
Called(op) == now' = now /\ registryCall'.op = op

\* C15: update of an unknown id is a non-fatal no-op -- updateAnchor and
\* updateContext on an id that is not tracked (never tracked, or evicted by
\* the sweep) return null, create no record and leave every record of both
\* registries as it was.
C15_UnknownUpdateIsNoOp ==
    [][/\ (Called("updateAnchor") /\ ~Has(anchors, registryCall'.id)) =>
            /\ registryCall'.result = Null
            /\ anchors' = anchors
            /\ contexts' = contexts
       /\ (Called("updateContext") /\ ~Has(contexts, registryCall'.id)) =>
            /\ registryCall'.result = Null
            /\ anchors' = anchors
            /\ contexts' = contexts]_vars

\* C15 witness: an update of a context that the sweep had evicted returned
\* null while both registries held other records
C15_EvictedContextUpdated ==
    /\ registryCall.op = "updateContext"
    /\ registryCall.result = Null
    /\ registryCall.id <= uuids
    /\ ~Has(contexts, registryCall.id)
    /\ DOMAIN contexts # {}
    /\ DOMAIN anchors # {}

\* C16: idempotent tracking -- trackAnchor on an id that is already tracked
\* leaves the createdAt of its record as the first call set it.
C16_TrackKeepsCreatedAt ==
    [][(Called("trackAnchor") /\ Has(anchors, registryCall'.id)) =>
          anchors'[registryCall'.id].createdAt =
              anchors[registryCall'.id].createdAt]_vars

\* C19: context recency is monotone -- no step decreases the lastActivity
\* of a context, and a getContext that finds the context leaves its
\* lastActivity at the current time.
C19_RecencyMonotone ==
    [][/\ \A c \in DOMAIN contexts \cap DOMAIN contexts' :
             contexts'[c].lastActivity >= contexts[c].lastActivity
       /\ (Called("getContext") /\ Has(contexts, registryCall'.id)) =>
             contexts'[registryCall'.id].lastActivity = now]_vars

\* C20: context cap -- the number of tracked contexts never exceeds
\* config.maxContexts.
C20_ContextCap == Cardinality(DOMAIN contexts) <= ConfigMaxContexts

\* the anchor state machine of the specification
TerminalStatuses == {"complete", "failed", "expired"}

StatusRank(status) ==
    CASE status = "created" -> 1
      [] status = "injected" -> 2
      [] status = "responding" -> 3
      [] status = "streaming" -> 4
      [] status \in TerminalStatuses -> 5

\* C21: anchor state machine -- every step leaves each tracked anchor with
\* a status of created, injected, responding, streaming, complete, failed
\* or expired; the status of an anchor that stays tracked never moves
\* backwards along created -> injected -> responding -> streaming ->
\* terminal, and a terminal status is never left.
C21_AnchorStateMachine ==
    [][\A a \in DOMAIN anchors' :
          /\ anchors'[a].status \in
                {"created", "injected", "responding", "streaming"}
                    \cup TerminalStatuses
          /\ a \in DOMAIN anchors =>
                /\ StatusRank(anchors'[a].status)
                       >= StatusRank(anchors[a].status)
                /\ anchors[a].status \in TerminalStatuses =>
                       anchors'[a].status = anchors[a].status]_vars

\* C22: completion is recorded -- when a streamResponse run of BridgeCore
\* has ended with a terminal complete:true update, the record of its anchor
\* in the anchor registry and the context of that anchor in the context
\* registry have status complete.
C22_CompletionRecorded ==
    \A r \in RunIds :
        (/\ runs[r].sink = "bridge"
         /\ Complete(r)
         /\ Terminals(runs[r]) # {}
         /\ Has(anchors, runs[r].anchor)) =>
            /\ anchors[runs[r].anchor].status = "complete"
            /\ \A c \in DOMAIN contexts :
                  contexts[c].anchor = runs[r].anchor =>
                      contexts[c].status = "complete"

\* C23: injection failure is recorded -- after an injectMessage call that
\* ended with an injection failure, the anchor it tracked is in the registry
\* with status failed.
C23_InjectionFailureRecorded ==
    (lastCall.op = "injectMessage" /\ lastCall.failure = "injection") =>
        \A a \in Contended :
            Has(anchors, a) /\ anchors[a].status = "failed"

\* anchor a of extractor ext is mid-stream: it was injected and a monitor
\* for it has not reached a terminal state
MidStream(ext, a) ==
    /\ Has(injectionTimestamps[ext], a)
    /\ \E r \in RunIds :
          Active(r) /\ runs[r].ext = ext /\ runs[r].anchor = a

\* C24: no interleaved injection -- no step injects an anchor B (records
\* its injection in an extractor's table) while another anchor A of that
\* extractor is mid-stream.
C24_NoInterleavedInjection ==
    [][\A ext \in Extractors : \A b \in AnchorPool :
          (/\ ~Has(injectionTimestamps[ext], b)
           /\ Has(injectionTimestamps'[ext], b)) =>
              \A a \in AnchorPool \ {b} : ~MidStream(ext, a)]_vars

\* C25: concurrency cap -- the number of anchors that are active at the
\* same time (injected, with a monitor that is not yet terminal) never
\* exceeds config.maxConcurrentMessages.
C25_ConcurrencyCap ==
    Cardinality({a \in AnchorPool : MidStream("service", a)})
        <= ConfigMaxConcurrent

\* the monitor of MessageService's only streamResponse call was cancelled:
\* stop() has cleared its activeExtractions entry before it resolved
Cancelled(r) ==
    /\ runs[r].sink = "guarded"
    /\ Active(r)
    /\ runs[r].anchor \notin activeExtractions

\* C26: cancellation -- once stopping the message service has cancelled a
\* monitor, that monitor takes no further poll tick and delivers no further
\* stream update: its run stays as the cancellation left it.
C26_StopCancelsMonitors ==
    [][\A r \in RunIds : Cancelled(r) => runs'[r] = runs[r]]_vars

\* what a sweep of a registry has to do: before and after are the registry
\* before and after it, count the value it returned
ExactSweep(before, after, count, clock) ==
    /\ \A k \in DOMAIN after :
          after[k].status \notin InFlight =>
              after[k].lastActivity >= clock - MaxAge
    /\ \A k \in DOMAIN before :
          before[k].lastActivity >= clock - MaxAge =>
              k \in DOMAIN after /\ after[k] = before[k]
    /\ DOMAIN after \subseteq DOMAIN before
    /\ count = Cardinality(DOMAIN before \ DOMAIN after)

\* C27: the sweep evicts exactly the stale records -- after
\* cleanupOldAnchors and after cleanupOldContexts no record that is not in
\* flight remains whose lastActivity predates now - maxAge, no record whose
\* lastActivity is at or after that cutoff was removed or modified, and the
\* count returned is the number of records removed.
C27_SweepIsExact ==
    [][/\ Called("cleanupOldAnchors") =>
            ExactSweep(anchors, anchors', registryCall'.result, now)
       /\ Called("cleanupOldContexts") =>
            ExactSweep(contexts, contexts', registryCall'.result, now)]_vars

\* C27 witness: a sweep of the anchors removed one record and kept another
C27_SweepRemovedOneOfTwo ==
    /\ registryCall.op = "cleanupOldAnchors"
    /\ registryCall.result = 1
    /\ Cardinality(DOMAIN anchors) = 1

\* the anchor of invocation r has no tracked injection timestamp
Untracked(r) == ~Has(injectionTimestamps[runs[r].ext], runs[r].anchor)

\* C28: isContentNew for an anchor without tracked injection timestamp
\* returns false and writes nothing -- a tick of a monitor of such an anchor
\* streams no content update (with nothing streamed before, content is
\* streamed exactly when isContentNew returns true) and leaves the
\* fingerprints and the timestamps of every anchor as they were.
C28_UntrackedIsNeverNew ==
    [][\A r \in RunIds :
          (/\ runs[r].pc = "timer"
           /\ runs'[r] # runs[r]
           /\ Untracked(r)) =>
              /\ lastContentHashes' = lastContentHashes
              /\ injectionTimestamps' = injectionTimestamps
              /\ \A i \in (Len(runs[r].delivered) + 1)
                              ..Len(runs'[r].delivered) :
                    runs'[r].delivered[i].complete]_vars

\* C28 witness: a tick of a monitor of an untracked anchor extracted
\* content and goes on polling, while another anchor is tracked
C28_UntrackedContentSeen ==
    \E r \in RunIds :
        /\ Untracked(r)
        /\ runs[r].pc = "timer"
        /\ runs[r].responseStarted
        /\ runs[r].tickContent = C1
        /\ runs[r].delivered = << >>
        /\ DOMAIN injectionTimestamps[runs[r].ext] # {}

\* a step that is a BridgeCore.injectMessage call
InjectStep ==
    /\ lastCall'.op = "injectMessage"
    /\ now' = now
    /\ runs' = runs
    /\ running' = running
    /\ bcInitialized' = bcInitialized
    /\ msInitialized' = msInitialized

\* C29: injection is registered with the completion engine -- after an
\* injectMessage call of the orchestrator that succeeded, the table of
\* MessageService's extractor, which monitors the anchor, holds the current
\* time as injection timestamp and the empty fingerprint for the anchor;
\* a call that failed leaves both tables as they were.
C29_InjectionRegistered ==
    [][InjectStep =>
          \A a \in Contended :
              /\ lastCall'.outcome = "returned" =>
                    /\ Has(injectionTimestamps'["service"], a)
                    /\ injectionTimestamps'["service"][a] = now
                    /\ Has(lastContentHashes'["service"], a)
                    /\ lastContentHashes'["service"][a] = EmptyString
              /\ lastCall'.outcome = "threw" =>
                    /\ injectionTimestamps' = injectionTimestamps
                    /\ lastContentHashes' = lastContentHashes]_vars

\* C29 witness: an injection at a later time registered the anchor again
\* after a monitor had streamed an update
C29_ReinjectionRegistered ==
    /\ lastCall.op = "injectMessage"
    /\ lastCall.outcome = "returned"
    /\ now > 1
    /\ \A a \in Contended :
          /\ Has(injectionTimestamps["service"], a)
          /\ injectionTimestamps["service"][a] = now
          /\ lastContentHashes["service"][a] = EmptyString
    /\ \E r \in RunIds : runs[r].delivered # << >>

\* the time the fallback delay of invocation r counts from: the injection
\* of its anchor or, for an anchor that was never injected, its own start
WaitingSince(r) ==
    IF Untracked(r) THEN runs[r].startTime
    ELSE injectionTimestamps[runs[r].ext][runs[r].anchor]

\* C30: response-start fallback -- a monitor does not stay in the
\* waiting-for-start phase once the fallback delay has passed: no poll made
\* later than that, and answered by a reachable surface, leaves the monitor
\* still waiting for the start.
C30_StartFallback ==
    \A r \in RunIds :
        (/\ runs[r].pc = "timer"
         /\ ~runs[r].responseStarted
         /\ runs[r].startAnswered) =>
            (runs[r].wakeAt - 1) - WaitingSince(r) <= StartFallback

\* C31: every probe call settles -- each executeJavaScript call, of each of
\* the three implementations, eventually resolves or rejects, whatever the
\* transport does.
C31_EveryProbeSettles ==
    \A i \in ProbeImpls :
        (probeCalls[i].promise = "pending")
            ~> (probeCalls[i].promise \in {"resolved", "rejected"})

\* the content of the last update an invocation streamed before its
\* terminal update; the empty content if it streamed none
Streamed(run) ==
    LET updates == {i \in 1..Len(run.delivered) : ~run.delivered[i].complete}
    IN  IF updates = {} THEN Empty
        ELSE run.delivered[CHOOSE i \in updates : \A j \in updates : j <= i]
                 .content

Longer(streamed, final) ==
    IF Len(final) > Len(streamed) THEN final ELSE streamed

\* C32: final extraction pass -- the content of the resolved result of a
\* completed invocation is the longer of the last streamed content and the
\* content of the final extraction, the terminal update carries the same
\* content, and no earlier update is longer than the result.
C32_FinalExtractionPass ==
    \A r \in RunIds :
        Complete(r) =>
            LET run == runs[r]
            IN  /\ run.sink # "none" =>
                      /\ run.result.content =
                             Longer(Streamed(run), run.finalContent)
                      /\ run.delivered # << >>
                      /\ run.delivered[Len(run.delivered)] =
                             [content |-> run.result.content,
                              complete |-> TRUE]
                /\ Len(run.result.content) >= Len(run.finalContent)
                /\ \A i \in 1..Len(run.delivered) :
                      Len(run.delivered[i].content)
                          <= Len(run.result.content)

\* C32 witness: an invocation streamed "Hi there, A", the final extraction
\* returned the longer "Hi there, AB", and the terminal update and the
\* result carry the longer content
C32_GrownContentKept ==
    \E r \in RunIds :
        /\ Complete(r)
        /\ Streamed(runs[r]) = C1
        /\ runs[r].finalContent = C2
        /\ runs[r].result.content = C2
        /\ runs[r].delivered[Len(runs[r].delivered)] =
               [content |-> C2, complete |-> TRUE]

\* C33: correct attribution across anchors -- the content extracted,
\* streamed or broadcast for an anchor comes only from the response to that
\* anchor's own request, whatever other requests have been injected.
C33_AttributedToOwnRequest ==
    attributed # NoAttribution =>
        \A i \in attributed.messages :
            /\ surface[i].kind = "response"
            /\ surface[i].anchor = attributed.anchor

\* C34: a monitor run resolves at most once and is quiet afterwards -- once
\* an invocation has resolved, no step changes anything of it: its result
\* stays, no tick of it runs, no update is delivered to its sink.
C34_QuietAfterResolve ==
    [][\A r \in RunIds :
          runs[r].result # NoResult =>
              /\ runs[r].pc = "resolved"
              /\ runs'[r] = runs[r]]_vars

\* C34 witness: an invocation has resolved, and an invocation started later
\* for the same extractor has polled and delivered an update
C34_ResolvedWhileOthersPoll ==
    \E r1, r2 \in RunIds :
        /\ runs[r1].pc = "resolved"
        /\ runs[r1].result # NoResult
        /\ runs[r2].ext = runs[r1].ext
        /\ runs[r2].startTime > runs[r1].startTime
        /\ runs[r2].delivered # << >>

\* the requests whose handler awaits ClaudeDesktopInterface.initialize
Initializing == {q \in Requests : apiServer.requests[q].pc = "initializing"}

\* C35: the API server's initialization flag is truthful -- isInitialized
\* is true only if the interface is initialized (so it stays false after an
\* initialization that failed), and no two requests run initialize at the
\* same time.
C35_InitFlagTruthful ==
    /\ apiServer.isInitialized => apiServer.initialized
    /\ Cardinality(Initializing) <= 1

\* the registerPlugin calls suspended in plugin.initialize()
Registering ==
    {c \in Registrations : pluginState.calls[c].pc = "initializing"}

\* C36: plugin registration is atomic -- whenever no registerPlugin call is
\* in flight, PluginManager and BridgeCore hold the same set of plugin
\* names, so a plugin whose registration failed is registered in neither.
C36_RegistrationAtomic ==
    Registering = {} => pluginState.manager = pluginState.core

\* C38: plugin cap under concurrency -- the number of plugins registered in
\* PluginManager never exceeds maxPlugins.
C38_PluginCap ==
    Cardinality(pluginState.manager) <= ConfigMaxPlugins

\* C37: stopping the state monitors is effective -- while the manager is
\* stopped no step changes the desktop state, a tick whose probe was in
\* flight at the stop included, and no monitor interval is scheduled.
C37_StopIsEffective ==
    [][/\ ~monitorState'.enabled => monitorState'.intervals = {}
       /\ ~monitorState.enabled =>
             monitorState'.desktop = monitorState.desktop]_vars

\* session-established and session-lost by turns, session-established first
Alternating(events) ==
    \A i \in 1..Len(events) :
        events[i] = IF i % 2 = 1 THEN "session-established"
                    ELSE "session-lost"

\* the validateSession calls suspended in their fetch
Validating == {c \in Validations : authState.calls[c].pc = "fetching"}

\* C39: session events alternate -- over the validateSession calls of a
\* behaviour, overlapping ones included, session-established and
\* session-lost are emitted by turns starting with session-established; a
\* step emits an event exactly when it changes sessionValid; after a call
\* that failed or found no page sessionValid is false.
C39_SessionEventsAlternate ==
    [][/\ Alternating(authState'.events)
       /\ (authState'.events # authState.events)
             <=> (authState'.sessionValid # authState.sessionValid)
       /\ Len(authState'.events) <= Len(authState.events) + 1
       /\ \A c \in Validations :
             (/\ c \in Validating
              /\ authState'.calls[c].pc = "returned"
              /\ authState'.calls[c].check # "page")
                 => ~authState'.sessionValid]_vars

\* C39 witness: the session was established, lost and established again
\* while a further validateSession call is still awaiting its fetch
C39_EstablishedLostEstablished ==
    /\ authState.events =
          <<"session-established", "session-lost", "session-established">>
    /\ authState.sessionValid
    /\ Validating # {}
====
